---------------------------- MODULE Spec2Model ----------------------------
(***************************************************************************)
(* A model of the extension collectors of glaze/utils/plugin_tools.py:     *)
(* BaseCollector, ExtensionsCollector and DeclaratorCollector, driven by   *)
(* the registration and unregistration of extensions on the observed       *)
(* extension point.                                                        *)
(*                                                                         *)
(* SpecExt is the ExtensionsCollector, SpecDecl the DeclaratorCollector.   *)
(* Both keep the fields of BaseCollector in the same variables.            *)
(*                                                                         *)
(* SpecLife is the LifecyclePlugin of gild/plugins/lifecycle/plugin.py,    *)
(* which keeps one PriorityHeap per prioritised collector, and SpecHeap a  *)
(* PriorityHeap exercised alone.                                           *)
(*                                                                         *)
(* SpecPref is the preference protocol of glaze/utils/atom_util.py,        *)
(* SpecPrefs the PrefPlugin of gild/plugins/preferences/plugin.py, SpecLog *)
(* the LogPlugin of gild/plugins/log/plugin.py, SpecPack the               *)
(* PackagesPlugin of gild/plugins/packages/plugin.py and SpecHolder the    *)
(* state holder of glaze/plugins/states/plugin.py.                         *)
(*                                                                         *)
(* SpecShare is the StatePlugin of glaze/plugins/states/plugin.py with the *)
(* plugins that contribute states.  SpecQueue is the QueueLoggerThread of  *)
(* glaze/plugins/log/tools.py beside the threads that fill its queue,      *)
(* FairQueue the same with a thread that is scheduled again and again, and *)
(* SpecModel the LogModel of the same file.                                *)
(***************************************************************************)
EXTENDS Naturals, Sequences, FiniteSets, TLC

VARIABLES
    extensions,     \* point.extensions: the extensions on the point, in order
    contributions,  \* content of the mapping object collector.contributions
    _extensions,    \* extension -> list of the objects it declared
    _delayed,       \* DeclaratorCollector: declarators waiting for another one
    missingReports, \* extension -> "Missing declarations" entries that named its Orphan
    observing,      \* the point observer is bound (start ran to its end)
    held,           \* the reference to the mapping a caller took before the last operation
    lastOp,         \* the operation that ran last
    tb,             \* the error report the last operation built
    log,            \* what the last operation did, in order
    raised,         \* the exception that escaped the last operation
    factoryCalls,   \* extension -> factory invocations since it is on the point
    synced,         \* the last operation is a refresh that ran to its end
    prev,           \* mapping and report before a repeated refresh
    answer,         \* what the last contributed_by call returned
    started,        \* LifecyclePlugin.start ran and stop did not since
    startup,        \* startup.contributions: the startup hooks, in the mapping's order
    closing,        \* closing.contributions: the closing checks, in the mapping's order
    closed,         \* closed.contributions: the cleanup hooks, in the mapping's order
    _start_heap,    \* the PriorityHeap of the startup hooks
    _clean_heap,    \* the PriorityHeap of the cleanup hooks
    discovered,     \* the collected startup hooks, in the order the collector found them
    event,          \* the close event after the last validate_closing
    heap,           \* a PriorityHeap used on its own
    pushed,         \* the entries heap holds, in the order they were pushed
    obj,            \* a HasPrefAtom object: the values of its members
    doc,            \* the preference value or document of the last preference operation
    workbench,      \* the ids of the manifests registered with the workbench
    plugins,        \* plugin id -> the values of the members of the plugin created for it
    _pref_decls,    \* PrefPlugin._pref_decls.contributions: plugin id -> auto_save of its Preferences
    _prefs,         \* PrefPlugin._prefs: plugin id -> member name -> value
    files,          \* path -> what the preference file at the path holds
    _last_saved_pref_file, \* PrefPlugin._last_saved_pref_file
    observers,      \* the auto-save observers bound to members of plugins
    result,         \* what the last call on the PrefPlugin returned
    _handlers,      \* LogPlugin._handlers: handler id -> (handler, logger name), in the dict's order
    _filters,       \* LogPlugin._filters: filter id -> (filter, handler id), in the dict's order
    handler_ids,    \* LogPlugin.handler_ids
    filter_ids,     \* LogPlugin.filter_ids
    loggers,        \* the (logger name, handler) pairs of the handlers added to the loggers
    attached,       \* the (handler, filter) pairs of the filters added to the handlers
    manifests,      \* the ids of the manifests registered with the workbench of the packages plugin
    packages,       \* PackagesPlugin.packages: package name -> message or registered manifest ids
    _registered,    \* PackagesPlugin._registered: the (priority, index, id) of each manifest registered
    signalled,      \* the errors the last operation of the packages plugin signalled, in order
    collected,      \* collect_and_register ran and stop did not since
    holder,         \* a _StateHolder: the values of alive, _allow_set and of a sync member
    within,         \* how many _setting_allowed contexts of the holder are entered and not exited
    plugged,        \* the plugins registered with the workbench that contribute a state
    plugin_members, \* plugin id -> the values of the members of the plugin
    _living_states, \* StatePlugin._living_states: state id -> the holder object, by its number
    holders,        \* the holder objects built so far, in the order they were built
    bindings,       \* the _updater observers bound to members of plugins
    got,            \* the number of the holder the last get_state returned, 0 for none
    queue,          \* QueueLoggerThread.queue: what was put and not yet taken, oldest first
    flag,           \* QueueLoggerThread.flag
    pc,             \* where the thread stands in run
    handled,        \* the records given to logger.handle, in that order
    produced,       \* everything that was put on the queue, in that order
    polls,          \* the calls of queue.get that ended after flag was set to False
    text,           \* LogModel.text, character by character
    _lines,         \* LogModel._lines
    buff_size,      \* LogModel.buff_size
    messages        \* the lines of the messages add_message was given, oldest first

vars == <<extensions, contributions, _extensions, _delayed, missingReports,
          observing, held,
          lastOp, tb, log, raised, factoryCalls, synced, prev, answer,
          started, startup, closing, closed, _start_heap, _clean_heap,
          discovered, event, heap, pushed,
          obj, doc,
          workbench, plugins, _pref_decls, _prefs, files, _last_saved_pref_file, observers, result,
          _handlers, _filters, handler_ids, filter_ids, loggers, attached,
          manifests, packages, _registered, signalled, collected,
          holder, within,
          plugged, plugin_members, _living_states, holders, bindings, got,
          queue, flag, pc, handled, produced, polls,
          text, _lines, buff_size, messages>>

\* The variables of the lifecycle plugin and of the heap on its own.
lifecycle == <<started, startup, closing, closed, _start_heap, _clean_heap,
               discovered, event, heap, pushed>>

\* The variables of the preference protocol of atom_util.
protocol == <<obj, doc>>

\* The variables of the preference plugin.
preferences == <<workbench, plugins, _pref_decls, _prefs, files, _last_saved_pref_file, observers, result>>

\* The variables of the log plugin.
logging == <<_handlers, _filters, handler_ids, filter_ids, loggers, attached>>

\* The variables of the packages plugin.
packaging == <<manifests, packages, _registered, signalled, collected>>

\* The variables of a state holder of the state plugin.
states == <<holder, within>>

\* The variables of the state plugin.
sharing == <<plugged, plugin_members, _living_states, holders, bindings, got>>

\* The variables of the thread that empties a queue of log records.
threading == <<queue, flag, pc, handled, produced, polls>>

\* The variables of the LogModel a GuiHandler writes to.
console == <<text, _lines, buff_size, messages>>

\* The variables of the other parts of the application.
services == <<protocol, preferences, logging, packaging, states, sharing, threading, console>>

----------------------------------------------------------------------------
(* Bounds of the model. *)

\* Longest list of objects an extension declares or its factory produces.
MaxItems == 2

\* factoryCalls counts up to MaxCalls and stays there.
MaxCalls == 2

\* The extensions (qualified ids) that plugins may contribute to the point.
ExtIds == {"A", "B"}

\* The ids contributions may carry.
Ids == {"x", "y"}

----------------------------------------------------------------------------
(* Values. *)

Range(s) == {s[i] : i \in 1..Len(s)}

SeqsUpTo(S, n) == UNION {[1..k -> S] : k \in 0..n}

\* Python's None.
None == "None"

\* The empty dict.
EmptyDict == <<>>

\* d[k] = v on a dict.
Put(d, k, v) == [x \in DOMAIN d \cup {k} |-> IF x = k THEN v ELSE d[x]]

\* An object of the expected class (ext_class) as an extension declares it:
\* its id, and whether validate_ext accepts it.  The validator in use
\* rejects some of the objects with id "x" and none with another id.
Contribs ==
    {c \in [cls : {"Contribution"}, id : Ids, valid : BOOLEAN] :
        c.valid \/ c.id = "x"}

\* An object that is not an instance of ext_class.
Other == [cls |-> "Other", id |-> "", valid |-> TRUE]

\* isinstance(contrib, self.ext_class)
IsInstance(item) == item.cls = "Contribution"

\* What calling extension.factory(workbench) does: return a list of
\* objects, or raise.  NoFactory is extension.factory = None.
NoFactory == [exc |-> "nofactory", items |-> <<>>]

\* k times the object c.
Copies(c, k) == [i \in 1..k |-> c]

ValidX == [cls |-> "Contribution", id |-> "x", valid |-> TRUE]
ValidY == [cls |-> "Contribution", id |-> "y", valid |-> TRUE]

\* The lists of objects of the class that extensions declare: up to
\* MaxItems objects with one id (one extension colliding with itself), and
\* two objects with two ids.
Lists ==
    {Copies(c, k) : c \in Contribs, k \in 0..MaxItems} \cup {<<ValidX, ValidY>>}

Factories ==
    {NoFactory}
    \cup {[exc |-> "none", items |-> s] : s \in Lists}
    \cup {[exc |-> "none", items |-> s] : s \in {<<Other>>, <<ValidX, Other>>}}
    \cup {[exc |-> x, items |-> <<>>] : x \in {"TypeError", "ValueError"}}

\* What an extension declares: its nested children and its factory.  The
\* declarations with children keep to the cases that decide a branch of
\* _load_contributions: a child of the class, a child of another class.
Declarations ==
    {[children |-> <<>>, factory |-> f] : f \in Factories}
    \cup {[children |-> c, factory |-> f] :
            c \in {<<ValidX>>, <<Other>>},
            f \in {NoFactory, [exc |-> "ValueError", items |-> <<>>]}}

\* The object number i of extension e: two objects are the same object
\* when they agree on ext and idx.
Tagged(e, items) ==
    [i \in 1..Len(items) |->
        [ext |-> e, idx |-> i, id |-> items[i].id, valid |-> items[i].valid]]

\* Entries of the error report tb.  The code's keys are the strings
\* "Extension <qualified id>", "Duplicate <id>_<n>" and "<id>".
ExtensionKey(e) == [kind |-> "Extension", name |-> e, n |-> 0]
DuplicateKey(id, n) == [kind |-> "Duplicate", name |-> id, n |-> n]
IdKey(id) == [kind |-> "Id", name |-> id, n |-> 0]

\* Events of the log.
Event(ev, e, errors) == [ev |-> ev, ext |-> e, id |-> "", errors |-> errors]
FactoryEv(e) == Event("factory", e, EmptyDict)
ReuseEv(e) == Event("reuse", e, EmptyDict)
\* _load_contributions(e) is called.
LoadEv(e) == Event("load", e, EmptyDict)
AssignEv == Event("assign", "", EmptyDict)
SignalEv(errors) == Event("signal", "", errors)
\* _load_contributions(e) raised exc.
LoadErrorEv(e, exc) == Event(exc, e, EmptyDict)


----------------------------------------------------------------------------
(* ExtensionsCollector._load_contributions and _refresh_contributions. *)

\* extension.get_children(self.ext_class): the children of the class.
get_children(decl) == SelectSeq(decl.children, IsInstance)

\* The factory is called when there is one and no child of the class.
CallsFactory(decl) ==
    decl.factory.exc /= "nofactory" /\ get_children(decl) = <<>>

\* _load_contributions(extension): the list of objects, or the exception
\* raised: the factory's own, or TypeError for an object of another class.
_load_contributions(e, decl) ==
    LET children == get_children(decl)
        f == decl.factory
    IN  IF ~CallsFactory(decl)
        THEN [exc |-> "none", contribs |-> Tagged(e, children)]
        ELSE IF f.exc /= "none"
        THEN [exc |-> f.exc, contribs |-> <<>>]
        ELSE IF \E i \in 1..Len(f.items) : ~IsInstance(f.items[i])
        THEN [exc |-> "TypeError", contribs |-> <<>>]
        ELSE [exc |-> "none", contribs |-> Tagged(e, f.items)]

\* A loop without the except clause.
CaughtNothing(exc) == FALSE

\* except TypeError: the exceptions the first loop catches.
Caught(exc) == exc = "TypeError"

\* The first loop of _refresh_contributions, from extension number i on:
\* reuse the cached list of a known extension, load a new one.  acc.exc is
\* the exception that ended the loop, if one did.
RECURSIVE LoadLoop(_, _, _, _, _)
LoadLoop(exts, old, decls, i, acc) ==
    IF i > Len(exts) \/ acc.exc /= "none" THEN acc
    ELSE LET e == exts[i] IN
         IF e \in DOMAIN old
         THEN LoadLoop(exts, old, decls, i + 1,
                       [acc EXCEPT !.new = Put(acc.new, e, old[e]),
                                   !.log = Append(acc.log, ReuseEv(e))])
         ELSE LET r == _load_contributions(e, decls[e])
                  l0 == IF CallsFactory(decls[e])
                        THEN acc.log \o <<LoadEv(e), FactoryEv(e)>>
                        ELSE Append(acc.log, LoadEv(e))
                  lg == IF r.exc = "none" THEN l0
                        ELSE Append(l0, LoadErrorEv(e, r.exc))
              IN  IF r.exc = "none"
                  THEN LoadLoop(exts, old, decls, i + 1,
                                [acc EXCEPT !.new = Put(acc.new, e, r.contribs),
                                            !.log = lg])
                  ELSE IF Caught(r.exc)
                  THEN LoadLoop(exts, old, decls, i + 1,
                                [acc EXCEPT !.tb = Put(acc.tb, ExtensionKey(e),
                                                       [ext |-> e, text |-> r.exc]),
                                            !.log = lg])
                  ELSE [acc EXCEPT !.exc = r.exc, !.log = lg]

\* A dict that gets no entry on a read.
PlainEntries(new, exts) == new

\* new_extensions is a defaultdict: reading new_extensions[extension] in
\* the second loop gives every extension of the point an entry, an
\* extension whose load failed the empty list.
DefaultEntries(new, exts) ==
    [e \in DOMAIN new \cup Range(exts) |-> IF e \in DOMAIN new THEN new[e] ELSE <<>>]

\* Reading d[e] from a defaultdict(list).
Lookup(d, e) == IF e \in DOMAIN d THEN d[e] ELSE <<>>

\* The objects the second loop visits, in its order.
RECURSIVE Visited(_, _, _)
Visited(exts, new, i) ==
    IF i > Len(exts) THEN <<>>
    ELSE Lookup(new, exts[i]) \o Visited(exts, new, i + 1)

\* The first "Duplicate <id>_<n>" key that the report does not hold.
RECURSIVE FreeDuplicateKey(_, _, _)
FreeDuplicateKey(report, id, n) ==
    IF DuplicateKey(id, n) \in DOMAIN report
    THEN FreeDuplicateKey(report, id, n + 1)
    ELSE DuplicateKey(id, n)

\* validate_ext(contrib): the result and the message.
validate_ext(contrib) == contrib.valid

\* A loop that keeps the objects validate_ext rejects out of the mapping.
InstallIfValid(contribs, contrib) ==
    IF contrib.valid THEN Put(contribs, contrib.id, contrib) ELSE contribs

\* contribs[contrib.id] = contrib, the last statement of the second loop.
Install(contribs, contrib) == Put(contribs, contrib.id, contrib)

\* The body of the second loop for one object.
MapStep(acc, contrib) ==
    LET t1 == IF contrib.id \in DOMAIN acc.contribs
              THEN Put(acc.tb, FreeDuplicateKey(acc.tb, contrib.id, 0),
                       [ext |-> contrib.ext, text |-> "Duplicate"])
              ELSE acc.tb
        t2 == IF ~validate_ext(contrib)
              THEN Put(t1, IdKey(contrib.id),
                       [ext |-> contrib.ext, text |-> "Invalid"])
              ELSE t1
    IN  [contribs |-> Install(acc.contribs, contrib), tb |-> t2]

RECURSIVE MapLoop(_, _, _)
MapLoop(objs, i, acc) ==
    IF i > Len(objs) THEN acc
    ELSE MapLoop(objs, i + 1, MapStep(acc, objs[i]))

\* An end that signals before it assigns.
PublishSignalFirst(report) ==
    IF report /= EmptyDict THEN <<SignalEv(report), AssignEv>> ELSE <<AssignEv>>

\* The end of _refresh_contributions: the mapping is assigned, then the
\* errors, if any, go to glaze.errors.signal in one call.
Publish(report) ==
    IF report /= EmptyDict THEN <<AssignEv, SignalEv(report)>> ELSE <<AssignEv>>

\* _refresh_contributions on the point's extensions exts, with the cache
\* old and decls what each extension to load declares.  exc is the
\* exception that escapes, and then nothing was assigned.
RefreshResult(exts, old, decls) ==
    IF exts = <<>>
    THEN [exc |-> "none", contributions |-> EmptyDict, cache |-> EmptyDict,
          tb |-> EmptyDict, log |-> <<AssignEv>>]
    ELSE LET l == LoadLoop(exts, old, decls, 1,
                           [new |-> EmptyDict, tb |-> EmptyDict, log |-> <<>>,
                            exc |-> "none"])
         IN  IF l.exc /= "none"
             THEN [exc |-> l.exc, contributions |-> EmptyDict, cache |-> EmptyDict,
                   tb |-> l.tb, log |-> l.log]
             ELSE LET new == DefaultEntries(l.new, exts)
                      m == MapLoop(Visited(exts, new, 1), 1,
                                   [contribs |-> EmptyDict, tb |-> l.tb])
                  IN  [exc |-> "none", contributions |-> m.contribs, cache |-> new,
                       tb |-> m.tb, log |-> l.log \o Publish(m.tb)]

\* The extensions a refresh has to load.
ToLoad(exts, old) == {e \in Range(exts) : e \notin DOMAIN old}

\* factoryCalls after a refresh with this log.
Counted(calls, lg) ==
    [e \in ExtIds |->
        IF \E i \in 1..Len(lg) : lg[i] = FactoryEv(e)
        THEN (IF calls[e] < MaxCalls THEN calls[e] + 1 ELSE MaxCalls)
        ELSE calls[e]]

----------------------------------------------------------------------------
(* The operations on an ExtensionsCollector. *)

NoCalls == [e \in ExtIds |-> 0]

NoPrev == [repeated |-> FALSE, contributions |-> EmptyDict, tb |-> EmptyDict]

NoAnswer == [id |-> "", ext |-> None]

\* s with e put at position pos.
InsertAt(s, pos, e) ==
    [i \in 1..(Len(s) + 1) |->
        IF i < pos THEN s[i] ELSE IF i = pos THEN e ELSE s[i - 1]]

\* s without e.
Without(s, e) == SelectSeq(s, LAMBDA x : x /= e)

\* No caller holds the collector's current mapping object.
NotHeld == [same |-> FALSE, taken |-> EmptyDict, seen |-> EmptyDict]

\* No HasPrefAtom object is at hand.
IdleProtocol ==
    /\ obj = <<>>
    /\ doc = <<>>

\* No preference plugin is at hand.
IdlePreferences ==
    /\ workbench = {}
    /\ plugins = <<>>
    /\ _pref_decls = <<>>
    /\ _prefs = <<>>
    /\ files = <<>>
    /\ _last_saved_pref_file = ""
    /\ observers = {}
    /\ result = <<>>

\* No log plugin is at hand.
IdleLogging ==
    /\ _handlers = <<>>
    /\ _filters = <<>>
    /\ handler_ids = <<>>
    /\ filter_ids = <<>>
    /\ loggers = {}
    /\ attached = {}

\* No packages plugin is at hand.
IdlePackaging ==
    /\ manifests = {}
    /\ packages = <<>>
    /\ _registered = <<>>
    /\ signalled = <<>>
    /\ collected = FALSE

\* No state holder is at hand.
IdleStates ==
    /\ holder = <<>>
    /\ within = 0

\* No state plugin is at hand.
IdleSharing ==
    /\ plugged = {}
    /\ plugin_members = <<>>
    /\ _living_states = <<>>
    /\ holders = <<>>
    /\ bindings = {}
    /\ got = 0

\* No QueueLoggerThread is at hand.
IdleThreading ==
    /\ queue = <<>>
    /\ flag = TRUE
    /\ pc = "none"
    /\ handled = <<>>
    /\ produced = <<>>
    /\ polls = 0

\* No LogModel is at hand.
IdleConsole ==
    /\ text = <<>>
    /\ _lines = 0
    /\ buff_size = 0
    /\ messages = <<>>

\* The parts of the application that an operation on a collector, on the
\* lifecycle plugin or on a heap does not use.
NoServices == IdleProtocol /\ IdlePreferences /\ IdleLogging /\ IdlePackaging /\ IdleStates /\ IdleSharing /\ IdleThreading /\ IdleConsole

\* The collectors, the lifecycle plugin and the heap after construction.
InitBase ==
    /\ extensions = <<>>
    /\ contributions = EmptyDict
    /\ _extensions = EmptyDict
    /\ _delayed = <<>>
    /\ missingReports = [e \in ExtIds |-> 0]
    /\ observing = FALSE
    /\ held = NotHeld
    /\ lastOp = "init"
    /\ tb = EmptyDict
    /\ log = <<>>
    /\ raised = "none"
    /\ factoryCalls = NoCalls
    /\ synced = FALSE
    /\ prev = NoPrev
    /\ answer = NoAnswer
    /\ started = FALSE
    /\ startup = <<>>
    /\ closing = <<>>
    /\ closed = <<>>
    /\ _start_heap = <<>>
    /\ _clean_heap = <<>>
    /\ discovered = <<>>
    /\ event = "none"
    /\ heap = <<>>
    /\ pushed = <<>>

InitExt == InitBase /\ NoServices

\* self.contributions = <a new dict>: the caller's reference keeps the
\* object it was taken from, which the collector cannot reach any more, and
\* is followed no further.
Assigned(h) == NotHeld

\* self.contributions.clear(): the object itself is emptied.
Cleared(h) == IF h.same THEN [h EXCEPT !.seen = EmptyDict] ELSE h

\* The effect of one call of _refresh_contributions with the point's
\* extensions exts, starting from the counters calls.
Refreshed(exts, calls, decls) ==
    LET r == RefreshResult(exts, _extensions, decls)
    IN  /\ raised' = r.exc
        /\ log' = r.log
        /\ factoryCalls' = Counted(calls, r.log)
        /\ synced' = (r.exc = "none")
        /\ IF r.exc = "none"
           THEN /\ contributions' = r.contributions
                /\ _extensions' = r.cache
                /\ tb' = r.tb
                /\ held' = Assigned(held)
           ELSE /\ tb' = r.tb
                /\ held' = NotHeld
                /\ UNCHANGED <<contributions, _extensions>>

\* BaseCollector.start: the first refresh, then the observer is bound.
start ==
    /\ ~observing
    /\ \E decls \in [ToLoad(extensions, _extensions) -> Declarations] :
          Refreshed(extensions, factoryCalls, decls)
    /\ observing' = (raised' = "none")
    /\ lastOp' = "start"
    /\ prev' = NoPrev
    /\ answer' = NoAnswer
    /\ UNCHANGED <<extensions, _delayed, missingReports, lifecycle, services>>

\* BaseCollector.stop.
stop ==
    /\ observing
    /\ observing' = FALSE
    /\ contributions' = EmptyDict
    /\ held' = Cleared(held)
    /\ _extensions' = EmptyDict
    /\ lastOp' = "stop"
    /\ tb' = EmptyDict
    /\ log' = <<>>
    /\ raised' = "none"
    /\ factoryCalls' = NoCalls
    /\ synced' = FALSE
    /\ prev' = NoPrev
    /\ answer' = NoAnswer
    /\ UNCHANGED <<extensions, _delayed, missingReports, lifecycle, services>>

\* The point's extensions change to exts: the bound observer
\* _on_contribs_updated refreshes the collector.  Without a bound observer
\* the collector does not run.
PointChanged(op, exts, calls) ==
    /\ extensions' = exts
    /\ lastOp' = IF observing THEN op ELSE "unobserved"
    /\ IF observing
       THEN \E decls \in [ToLoad(exts, _extensions) -> Declarations] :
               Refreshed(exts, calls, decls)
       ELSE /\ raised' = "none"
            /\ log' = <<>>
            /\ tb' = EmptyDict
            /\ factoryCalls' = calls
            /\ synced' = FALSE
            /\ held' = NotHeld
            /\ UNCHANGED <<contributions, _extensions>>
    /\ prev' = NoPrev
    /\ answer' = NoAnswer
    /\ UNCHANGED <<observing, _delayed, missingReports, lifecycle, services>>

\* A plugin contributing extension e to the point is registered.
register_extension ==
    \E e \in ExtIds \ Range(extensions), pos \in 1..(Len(extensions) + 1) :
        PointChanged("register", InsertAt(extensions, pos, e), factoryCalls)

\* The plugin contributing extension e is unregistered.
unregister_extension ==
    \E e \in Range(extensions) :
        PointChanged("unregister", Without(extensions, e),
                     [factoryCalls EXCEPT ![e] = 0])

\* _refresh_contributions called once more on a started collector.
_refresh_contributions ==
    /\ observing
    /\ prev' = [repeated |-> synced,
                contributions |-> IF synced THEN contributions ELSE EmptyDict,
                tb |-> IF synced THEN tb ELSE EmptyDict]
    /\ \E decls \in [ToLoad(extensions, _extensions) -> Declarations] :
          Refreshed(extensions, factoryCalls, decls)
    /\ lastOp' = "refresh"
    /\ answer' = NoAnswer
    /\ UNCHANGED <<extensions, observing, _delayed, missingReports, lifecycle, services>>

\* A caller reads collector.contributions and keeps the reference.
Hold ==
    /\ observing
    /\ held' = [same |-> TRUE, taken |-> contributions, seen |-> contributions]
    /\ lastOp' = "hold"
    /\ tb' = EmptyDict
    /\ log' = <<>>
    /\ raised' = "none"
    /\ prev' = NoPrev
    /\ answer' = NoAnswer
    /\ synced' = FALSE
    /\ UNCHANGED <<extensions, contributions, _extensions, _delayed, missingReports, lifecycle, services, observing,
                   factoryCalls>>

\* The extension whose list holds the object, as the loop over
\* self._extensions.items() finds it; None when the loop ends.
Owner(contrib) ==
    IF \E e \in DOMAIN _extensions : contrib \in Range(_extensions[e])
    THEN CHOOSE e \in DOMAIN _extensions : contrib \in Range(_extensions[e])
    ELSE None

\* A lookup with self.contributions.get(contrib_id).
contributed_by_get(id) ==
    IF id \notin DOMAIN contributions
    THEN [exc |-> "none", ext |-> None]
    ELSE [exc |-> "none", ext |-> Owner(contributions[id])]

\* contributed_by(contrib_id): self.contributions[contrib_id] raises
\* KeyError for an id that the mapping does not hold.
contributed_by_result(id) ==
    IF id \notin DOMAIN contributions
    THEN [exc |-> "KeyError", ext |-> None]
    ELSE [exc |-> "none", ext |-> Owner(contributions[id])]

contributed_by ==
    \E id \in Ids :
        /\ observing
        /\ answer' = [id |-> id, ext |-> contributed_by_result(id).ext]
        /\ raised' = contributed_by_result(id).exc
        /\ lastOp' = "contributed_by"
        /\ log' = <<>>
        /\ tb' = EmptyDict
        /\ prev' = NoPrev
        /\ synced' = FALSE
        /\ UNCHANGED <<extensions, contributions, _extensions, _delayed, missingReports, lifecycle, services, observing,
                       held, factoryCalls>>

NextExt ==
    \/ start
    \/ stop
    \/ register_extension
    \/ unregister_extension
    \/ _refresh_contributions
    \/ Hold
    \/ contributed_by

SpecExt == InitExt /\ [][NextExt]_vars

----------------------------------------------------------------------------
(* Declarators (glaze/utils/declarator.py). *)

\* Longest list of declarators an extension declares.
MaxDecls == 2

\* missingReports counts up to MaxReports and stays there.
MaxReports == 2

\* Longest pending list (_delayed) the model follows.
MaxPending == 1

\* A leaf declarator contributes itself under its id; dep is the id of the
\* declarator that has to be registered before it, None when it needs none.
Parent == [cls |-> "Declarator", id |-> "parent", dep |-> None]
Child == [cls |-> "Declarator", id |-> "child", dep |-> "parent"]
\* A declarator waiting for one that no extension declares.
Orphan == [cls |-> "Declarator", id |-> "orphan", dep |-> "absent"]

Declarators == {Parent, Child, Orphan}

NotDeclarator == [cls |-> "Other", id |-> "", dep |-> None]

IsDeclarator(item) == item.cls = "Declarator"

\* The lists of declarators an extension declares, each declarator once.
DeclLists ==
    {s \in SeqsUpTo(Declarators, MaxDecls) :
        \A i, j \in 1..Len(s) : s[i] = s[j] => i = j}

\* What an extension contributing declarators declares: nested children,
\* or a factory.
DeclDeclarations ==
    {[children |-> s, factory |-> NoFactory] : s \in DeclLists}
    \cup {[children |-> <<>>, factory |-> [exc |-> "none", items |-> s]] :
            s \in {<<Parent>>, <<NotDeclarator>>}}
    \cup {[children |-> <<>>, factory |-> [exc |-> "ValueError", items |-> <<>>]]}

\* The declarator objects of extension e.
TaggedDecls(e, items) ==
    [i \in 1..Len(items) |-> [ext |-> e, id |-> items[i].id, dep |-> items[i].dep]]

\* Events of the log about one declarator.
DeclEvent(ev, d) == [ev |-> ev, ext |-> d.ext, id |-> d.id, errors |-> EmptyDict]
\* register() put the declarator in the mapping.
RegisterEv(d) == DeclEvent("register", d)
\* register() put the declarator on the pending list.
DeferEv(d) == DeclEvent("defer", d)
UnregisterEv(d) == DeclEvent("unregister", d)
\* The declarator is named by the "Missing declarations" entry.
MissingEv(d) == DeclEvent("missing", d)
\* A pass of the loop over the pending list begins.
PassEv == Event("pass", "", EmptyDict)
\* The observers of contributions are notified.
NotifyEv == Event("notify", "", EmptyDict)

MissingKey == [kind |-> "Missing declarations", name |-> "", n |-> 0]

\* Declarator.register(collector, traceback) of a leaf declarator: it adds
\* itself to collector._delayed when the declarator it needs is not
\* registered, and to collector.contributions otherwise.
register(st, d) ==
    IF d.dep /= None /\ d.dep \notin DOMAIN st.contributions
    THEN [st EXCEPT !.delayed = Append(@, d),
                    !.log = Append(@, DeferEv(d))]
    ELSE [st EXCEPT !.contributions = Put(@, d.id, d),
                    !.log = Append(@, RegisterEv(d))]

\* The declarator is registered: the mapping holds it.
Registered(contribs, d) == d.id \in DOMAIN contribs /\ contribs[d.id] = d

\* Declarator.unregister(collector) of a leaf declarator: a registered
\* declarator removes its contribution.
unregister(st, d) ==
    IF Registered(st.contributions, d)
    THEN [st EXCEPT !.contributions =
                        [k \in DOMAIN @ \ {d.id} |-> @[k]],
                    !.log = Append(@, UnregisterEv(d))]
    ELSE [st EXCEPT !.log = Append(@, UnregisterEv(d))]

----------------------------------------------------------------------------
(* DeclaratorCollector._get_decls, _register_decls and _unregister_decls.  *)
(* A collector state st is a record of the fields a batch reads and        *)
(* writes: contributions, cache (_extensions), delayed (_delayed), and the *)
(* tb, log and exc of the operation under way.                             *)

\* _get_decls(extension): the declarators of the extension, or the
\* exception raised.
_get_decls(e, decl) ==
    LET children == SelectSeq(decl.children, IsDeclarator)
        f == decl.factory
    IN  IF ~(f.exc /= "nofactory" /\ children = <<>>)
        THEN [exc |-> "none", contribs |-> TaggedDecls(e, children)]
        ELSE IF f.exc /= "none"
        THEN [exc |-> f.exc, contribs |-> <<>>]
        ELSE IF \E i \in 1..Len(f.items) : ~IsDeclarator(f.items[i])
        THEN [exc |-> "TypeError", contribs |-> <<>>]
        ELSE [exc |-> "none", contribs |-> TaggedDecls(e, f.items)]

\* The local variable declarators before its first assignment.
Unbound == [bound |-> FALSE, list |-> <<>>]

\* The batch meets an extension the collector tracks already.
TrackedEv(e) == Event("tracked", e, EmptyDict)

\* The first loop of _register_decls, from extension number i of the batch
\* on.  Only an extension that is not tracked assigns declarators; the
\* extend statement runs for every extension that did not hit the except
\* clause, with the value declarators has then.
RECURSIVE GetDeclsLoop(_, _, _, _, _)
GetDeclsLoop(exts, old, decls, i, acc) ==
    IF i > Len(exts) \/ acc.exc /= "none" THEN acc
    ELSE LET e == exts[i]
             fresh == e \notin DOMAIN old
             r == IF fresh THEN _get_decls(e, decls[e])
                  ELSE [exc |-> "none", contribs |-> <<>>]
             declarators == IF fresh /\ r.exc = "none"
                            THEN [bound |-> TRUE, list |-> r.contribs]
                            ELSE acc.declarators
             l0 == IF fresh THEN Append(acc.log, LoadEv(e))
                   ELSE Append(acc.log, TrackedEv(e))
             lg == IF r.exc = "none" THEN l0
                   ELSE Append(l0, LoadErrorEv(e, r.exc))
         IN  IF r.exc = "TypeError"
             THEN GetDeclsLoop(exts, old, decls, i + 1,
                               [acc EXCEPT !.tb = Put(acc.tb, ExtensionKey(e),
                                                      [ext |-> e, text |-> r.exc]),
                                           !.log = lg])
             ELSE IF r.exc /= "none"
             THEN [acc EXCEPT !.exc = r.exc, !.log = lg]
             ELSE IF ~declarators.bound
             THEN [acc EXCEPT !.exc = "UnboundLocalError", !.log = lg]
             ELSE GetDeclsLoop(exts, old, decls, i + 1,
                               [acc EXCEPT !.new = Put(acc.new, e,
                                                       Lookup(acc.new, e)
                                                       \o declarators.list),
                                           !.order = IF e \in Range(@) THEN @
                                                     ELSE Append(@, e),
                                           !.declarators = declarators,
                                           !.log = lg])

\* declarator.register(self, tb) on the declarators ds, from number i on.
RECURSIVE RegisterAll(_, _, _)
RegisterAll(st, ds, i) ==
    IF i > Len(ds) THEN st
    ELSE RegisterAll(register(st, ds[i]), ds, i + 1)

\* A batch that never retries the pending declarators.
DrainNever(st, old) == st

\* k passes over the pending list, whether or not a pass registers anything.
RECURSIVE RetryPasses(_, _)
RetryPasses(st, k) ==
    IF k = 0 \/ st.delayed = <<>> THEN st
    ELSE RetryPasses(RegisterAll([st EXCEPT !.delayed = <<>>,
                                            !.log = Append(@, PassEv)],
                                 st.delayed, 1),
                     k - 1)

\* A batch that retries the pending declarators a fixed number of times.
DrainFixedPasses(st, old) == RetryPasses(st, 2)

\* The while loop of _register_decls: as long as the pending list is not
\* empty and its length is not the one the last pass started with, empty
\* it and register again the declarators it held.
RECURSIVE Drain(_, _)
Drain(st, old) ==
    IF old /= Len(st.delayed) /\ st.delayed /= <<>>
    THEN LET delayed == st.delayed
         IN  Drain(RegisterAll([st EXCEPT !.delayed = <<>>,
                                          !.log = Append(@, PassEv)],
                               delayed, 1),
                   Len(delayed))
    ELSE st

\* self._extensions.update(new_extensions).
Update(old, new) ==
    [e \in DOMAIN old \cup DOMAIN new |-> IF e \in DOMAIN new THEN new[e] ELSE old[e]]

\* One MissingEv per pending declarator.
Missing(pending) == [i \in 1..Len(pending) |-> MissingEv(pending[i])]

\* An end that leaves the mapping the declarators changed in place as it
\* is: nothing tells the observers.
NeverNotified(before, st) == st

\* The end of _register_decls and of _unregister_decls: observers are
\* notified when the content differs from the copy taken at the beginning.
Notified(before, st) ==
    IF st.contributions /= before.contributions
    THEN [st EXCEPT !.log = Append(@, NotifyEv)]
    ELSE st

\* A batch that says nothing about the declarators left pending.
NoMissingReport(report, pending) == report

\* if self._delayed: tb["Missing declarations"] = ...: the entry lists the
\* pending declarators.
MissingReport(report, pending) ==
    IF pending /= <<>>
    THEN Put(report, MissingKey, [ext |-> None, text |-> "Missing declarations"])
    ELSE report

\* _register_decls(extensions) from the collector state st; decls is what
\* each extension to load declares.  An exception that escapes the first
\* loop leaves the collector as it was.
_register_decls(st, exts, decls) ==
    LET l == GetDeclsLoop(exts, st.cache, decls, 1,
                          [new |-> EmptyDict, order |-> <<>>,
                           declarators |-> Unbound, tb |-> EmptyDict,
                           log |-> st.log, exc |-> "none"])
    IN  IF l.exc /= "none"
        THEN [st EXCEPT !.exc = l.exc, !.tb = l.tb, !.log = l.log]
        ELSE LET s1 == RegisterAll([st EXCEPT !.log = l.log],
                                   Visited(l.order, l.new, 1), 1)
                 s2 == Drain(s1, 0)
                 t == MissingReport(l.tb, s2.delayed)
                 s3 == [s2 EXCEPT !.cache = Update(st.cache, l.new),
                                  !.tb = t,
                                  !.log = @ \o Missing(s2.delayed)]
                 s4 == Notified(st, s3)
             IN  IF t /= EmptyDict
                 THEN [s4 EXCEPT !.log = Append(@, SignalEv(t))]
                 ELSE s4

\* del self._extensions[extension].
DropEv(e) == Event("drop", e, EmptyDict)

RECURSIVE UnregisterAll(_, _, _)
UnregisterAll(st, ds, i) ==
    IF i > Len(ds) THEN st
    ELSE UnregisterAll(unregister(st, ds[i]), ds, i + 1)

\* The loop of _unregister_decls: the declarators of an extension are
\* unregistered, then the extension leaves self._extensions.
RECURSIVE UnregisterLoop(_, _, _)
UnregisterLoop(st, exts, i) ==
    IF i > Len(exts) THEN st
    ELSE LET s == UnregisterAll(st, st.cache[exts[i]], 1)
         IN  UnregisterLoop([s EXCEPT !.cache =
                                [e \in DOMAIN @ \ {exts[i]} |-> @[e]],
                                      !.log = Append(@, DropEv(exts[i]))],
                            exts, i + 1)

\* A loop that drops the extensions and calls unregister on no declarator.
DropOnly(st, exts) ==
    [st EXCEPT !.cache = [e \in DOMAIN @ \ Range(exts) |-> @[e]],
               !.log = @ \o [i \in 1..Len(exts) |-> DropEv(exts[i])]]

\* _unregister_decls(extensions): exts lists the keys of the mapping.
_unregister_decls(st, exts) == Notified(st, UnregisterLoop(st, exts, 1))

----------------------------------------------------------------------------
(* The operations on a DeclaratorCollector. *)

InitDecl == InitExt

\* The collector's fields at the beginning of an operation; held is the
\* reference to the mapping object a caller takes then: same tells that
\* self.contributions is still that object.
Fields ==
    [contributions |-> contributions, cache |-> _extensions,
     delayed |-> _delayed,
     tb |-> EmptyDict, log |-> <<>>, exc |-> "none",
     held |-> [same |-> TRUE, taken |-> contributions, seen |-> contributions]]

\* missingReports after an operation with this log: an entry of the error
\* report that names the Orphan of an extension counts once, whatever the
\* number of times the pending list holds it.
Reported(reports, lg) ==
    [e \in ExtIds |->
        IF \E i \in 1..Len(lg) : lg[i] = MissingEv([ext |-> e, id |-> Orphan.id,
                                                      dep |-> Orphan.dep])
        THEN (IF reports[e] < MaxReports THEN reports[e] + 1 ELSE MaxReports)
        ELSE reports[e]]

\* The collector's fields at the end of an operation.  The pending list
\* is never emptied by stop, and the model follows it up to MaxPending.
\* The declarators and clear() edit the object self.contributions in
\* place, and the last assignment of a batch puts the edited object back,
\* so the caller sees in the object it holds what the collector holds.
Stored(st) ==
    /\ Len(st.delayed) <= MaxPending
    /\ contributions' = st.contributions
    /\ _extensions' = st.cache
    /\ _delayed' = st.delayed
    /\ held' = IF st.held.same
               THEN [st.held EXCEPT !.seen = st.contributions]
               ELSE st.held
    /\ missingReports' = Reported(missingReports, st.log)
    /\ tb' = st.tb
    /\ log' = st.log
    /\ raised' = st.exc

\* The variables that only the operations of an ExtensionsCollector use,
\* and those of the lifecycle plugin.
ExtOnly ==
    /\ factoryCalls' = NoCalls
    /\ synced' = FALSE
    /\ prev' = NoPrev
    /\ answer' = NoAnswer
    /\ UNCHANGED <<lifecycle, services>>

\* The ids of the declarators a declaration holds.
DeclaredIds(decl) ==
    {decl.children[i].id : i \in 1..Len(decl.children)}
    \cup {decl.factory.items[i].id : i \in 1..Len(decl.factory.items)}

\* What the extensions to load declare: ids are unique on the point, no
\* two extensions declare a declarator with the same id.
DeclInputs(exts, old) ==
    {decls \in [ToLoad(exts, old) -> DeclDeclarations] :
        /\ \A e1, e2 \in DOMAIN decls :
              e1 /= e2 => DeclaredIds(decls[e1]) \cap DeclaredIds(decls[e2]) = {}
        /\ \A e1 \in DOMAIN decls, e2 \in DOMAIN old :
              \A i \in 1..Len(old[e2]) : old[e2][i].id \notin DeclaredIds(decls[e1])}

\* The sequences that list the elements of S once each.
Orders(S) ==
    {s \in [1..Cardinality(S) -> S] : \A e \in S : \E i \in DOMAIN s : s[i] = e}

\* BaseCollector.start with DeclaratorCollector._refresh_contributions:
\* one batch with the extensions of the point, then the observer is bound.
Decl_start ==
    /\ ~observing
    /\ \E decls \in DeclInputs(extensions, _extensions) :
          Stored(_register_decls(Fields, extensions, decls))
    /\ observing' = (raised' = "none")
    /\ lastOp' = "start"
    /\ ExtOnly
    /\ UNCHANGED extensions

\* BaseCollector.stop: the mapping and the tracked extensions are cleared.
Decl_stop ==
    /\ observing
    /\ observing' = FALSE
    /\ Stored([Fields EXCEPT !.contributions = EmptyDict, !.cache = EmptyDict])
    /\ lastOp' = "stop"
    /\ ExtOnly
    /\ UNCHANGED extensions

\* DeclaratorCollector._refresh_contributions called once more on a
\* started collector.
Decl_refresh_contributions ==
    /\ observing
    /\ \E decls \in DeclInputs(extensions, _extensions) :
          Stored(_register_decls(Fields, extensions, decls))
    /\ lastOp' = "refresh"
    /\ ExtOnly
    /\ UNCHANGED <<extensions, observing>>

\* An observer that registers the added extensions, then unregisters the
\* removed ones.
RegisterThenUnregister(old, new, added, decls) ==
    IF new = <<>>
    THEN [Fields EXCEPT !.contributions = EmptyDict, !.cache = EmptyDict,
                        !.log = <<AssignEv>>, !.held.same = FALSE]
    ELSE LET removed == SelectSeq(old, LAMBDA e : e \notin Range(new)
                                               /\ e \in DOMAIN _extensions)
             r == _register_decls(Fields, added, decls)
         IN  IF r.exc /= "none" THEN r ELSE _unregister_decls(r, removed)

\* DeclaratorCollector._on_contribs_updated for a change of the point from
\* old to new; added lists new - old in the order the set is iterated.
Decl_on_contribs_updated(old, new, added, decls) ==
    IF new = <<>>
    THEN [Fields EXCEPT !.contributions = EmptyDict, !.cache = EmptyDict,
                        !.log = <<AssignEv>>, !.held.same = FALSE]
    ELSE LET removed == SelectSeq(old, LAMBDA e : e \notin Range(new)
                                               /\ e \in DOMAIN _extensions)
         IN  _register_decls(_unregister_decls(Fields, removed), added, decls)

\* The extensions of the point change to exts: plugins were registered or
\* unregistered.  The bound observer runs; without it the collector does
\* not.
Decl_PointChanged ==
    \E exts \in {s \in SeqsUpTo(ExtIds, Cardinality(ExtIds)) :
                    \A i, j \in 1..Len(s) : s[i] = s[j] => i = j} :
        /\ exts /= extensions
        /\ extensions' = exts
        /\ IF observing
           THEN /\ \E added \in Orders(Range(exts) \ Range(extensions)) :
                   \E decls \in DeclInputs(added,
                                   [e \in DOMAIN _extensions \cap Range(exts)
                                        |-> _extensions[e]]) :
                       Stored(Decl_on_contribs_updated(extensions, exts,
                                                       added, decls))
                /\ lastOp' = "change"
           ELSE /\ Stored(Fields)
                /\ lastOp' = "unobserved"
        /\ ExtOnly
        /\ UNCHANGED observing

NextDecl ==
    \/ Decl_start
    \/ Decl_stop
    \/ Decl_refresh_contributions
    \/ Decl_PointChanged

SpecDecl == InitDecl /\ [][NextDecl]_vars

----------------------------------------------------------------------------
(* Properties of the ExtensionsCollector (SpecExt). *)

\* The operations that run _refresh_contributions.
RefreshOps == {"start", "register", "unregister", "refresh"}

\* The last operation ran _refresh_contributions.
RefreshRan == lastOp \in RefreshOps

\* ... and the call returned.
RefreshDone == RefreshRan /\ raised = "none"

\* The objects of the extensions on the point, in the order of the point.
Published == Visited(extensions, _extensions, 1)

\* Extension number i of the point contributes an object with id k.
Contributes(i, k) ==
    \E c \in Range(Lookup(_extensions, extensions[i])) : c.id = k

\* C1: when two extensions of the point, in this order, both contribute an
\* object with id k, the published contributions[k] is an object of the
\* earliest extension contributing k, and the report holds a Duplicate
\* entry naming the later extension.
C1_EarliestContributorWins ==
    RefreshDone =>
        \A k \in Ids : \A i, j \in 1..Len(extensions) :
            (i < j /\ Contributes(i, k) /\ Contributes(j, k)
                   /\ \A h \in 1..(i - 1) : ~Contributes(h, k))
            => /\ contributions[k].ext = extensions[i]
               /\ \E key \in DOMAIN tb :
                     /\ key.kind = "Duplicate" /\ key.name = k
                     /\ tb[key].ext = extensions[j]

\* C2: after a refresh the mapping has exactly one entry per id that an
\* extension of the point contributes, each stored under its own id and
\* each an object of an extension of the point.
C2_OneEntryPerContributedId ==
    RefreshDone =>
        /\ DOMAIN contributions = {c.id : c \in Range(Published)}
        /\ \A k \in DOMAIN contributions :
              contributions[k].id = k /\ contributions[k] \in Range(Published)

\* Two extensions, three objects, two ids: one id is contributed twice.
C2_Witness ==
    /\ RefreshDone
    /\ Len(extensions) = 2
    /\ Len(Published) = 3
    /\ Cardinality(DOMAIN contributions) = 2

\* C3: the mapping object a caller holds keeps the content it had when the
\* caller took it, whatever the collector does next.
C3_NeverMutatedInPlace == held.seen = held.taken

\* The last operation is a refresh that follows at once a refresh that ran
\* to its end: the point did not change in between.
Repeated == lastOp = "refresh" /\ prev.repeated

\* The entries of a report that are not load errors.
WithoutLoadErrors(report) ==
    [key \in {x \in DOMAIN report : x.kind /= "Extension"} |-> report[key]]

\* C4 as stated: a repeated refresh yields the same content and the same
\* recorded errors.
C4_RepeatedRefreshSameErrors ==
    Repeated => contributions = prev.contributions /\ tb = prev.tb

\* C4, amended: a repeated refresh yields the same content and the same
\* Duplicate and validation errors; the load errors ("Extension <id>"
\* entries) are recorded only by the refresh that loads the extension, so
\* the repeated one records none.
C4_RepeatedRefreshSameButLoadErrors ==
    Repeated =>
        /\ raised = "none"
        /\ contributions = prev.contributions
        /\ tb = WithoutLoadErrors(prev.tb)

\* A repeated refresh after one that recorded a load error and another
\* error, with objects published.
C4_Witness ==
    /\ Repeated
    /\ contributions /= EmptyDict
    /\ tb /= EmptyDict
    /\ \E key \in DOMAIN prev.tb : key.kind = "Extension"

\* C5 as stated: the factory of an extension is invoked at most once while
\* the extension stays on the point.
C5_FactoryAtMostOnce == \A e \in ExtIds : factoryCalls[e] <= 1

\* C5, amended: a refresh that runs to its end caches every extension of
\* the point, one whose load failed with TypeError too, and no operation
\* invokes the factory of a cached extension.  (A refresh that an exception
\* aborts caches nothing: the next one loads the same extensions again.)
C5_CachedNeverReloaded ==
    [][/\ (lastOp' \in RefreshOps /\ raised' = "none")
            => DOMAIN _extensions' = Range(extensions')
       /\ \A e \in DOMAIN _extensions : \A i \in 1..Len(log') :
            log'[i] /= FactoryEv(e) /\ log'[i] /= LoadEv(e)]_vars

\* A refresh reused the cached list of an extension whose factory ran once.
C5_Witness ==
    /\ RefreshDone
    /\ \E e \in ExtIds :
          /\ factoryCalls[e] = 1
          /\ \E i \in 1..Len(log) : log[i] = ReuseEv(e)

\* _load_contributions(e) raised exc in the last operation.
LoadRaised(e, exc) == \E i \in 1..Len(log) : log[i] = LoadErrorEv(e, exc)

\* Every extension of the point was loaded or reused, is cached, and each
\* of its objects has its id in the mapping.
AllCollected ==
    /\ \A e \in Range(extensions) :
          \E i \in 1..Len(log) : log[i] \in {LoadEv(e), ReuseEv(e)}
    /\ DOMAIN _extensions = Range(extensions)
    /\ \A c \in Range(Published) : c.id \in DOMAIN contributions

\* C6 as stated: whatever the load of an extension raises, the failure is
\* recorded under the extension, the other extensions are collected and no
\* exception escapes the refresh.
C6_LoadFailureIsolated ==
    RefreshRan =>
        \A e \in ExtIds : \A exc \in {"TypeError", "ValueError"} :
            LoadRaised(e, exc)
            => /\ raised = "none"
               /\ ExtensionKey(e) \in DOMAIN tb
               /\ AllCollected

\* The state part of C6, amended.
C6_TypeErrorState ==
    RefreshRan =>
        /\ \A e \in ExtIds :
              LoadRaised(e, "TypeError")
              => /\ ExtensionKey(e) \in DOMAIN tb
                 /\ tb[ExtensionKey(e)].ext = e
                 /\ raised = "none" => _extensions[e] = <<>>
        /\ (\A e \in ExtIds : ~LoadRaised(e, "ValueError"))
              => raised = "none" /\ AllCollected
        /\ (\E e \in ExtIds : LoadRaised(e, "ValueError"))
              => raised = "ValueError"

\* C6, amended: a load that fails with TypeError (an object of another
\* class, or a factory raising TypeError) is recorded under the extension,
\* the other extensions are collected in the same refresh and nothing
\* escapes; another exception of a factory escapes the refresh, which then
\* leaves the mapping and the cache as they were.
C6_TypeErrorIsolated ==
    /\ []C6_TypeErrorState
    /\ [][(lastOp' \in RefreshOps /\ raised' /= "none")
            => UNCHANGED <<contributions, _extensions>>]_vars

\* One extension failed with TypeError and the other one's objects are
\* published by the same refresh.
C6_Witness ==
    /\ RefreshDone
    /\ Len(extensions) = 2
    /\ \E e \in ExtIds : LoadRaised(e, "TypeError")
    /\ \E e \in ExtIds :
          /\ \E i \in 1..Len(log) : log[i] = LoadEv(e)
          /\ e \in DOMAIN _extensions /\ _extensions[e] /= <<>>
    /\ contributions /= EmptyDict

\* C7: an object that validate_ext rejects is the one published under its
\* id, and the report holds an entry under that id, at every refresh.
C7_InvalidStillInstalled ==
    RefreshDone =>
        \A c \in Range(Published) :
            ~c.valid => /\ c.id \in DOMAIN contributions
                        /\ contributions[c.id] = c
                        /\ IdKey(c.id) \in DOMAIN tb

\* The calls of glaze.errors.signal in the last operation.
Signals == SelectSeq(log, LAMBDA x : x.ev = "signal")

\* The last event is the one signal, it carries the report, and the one
\* assignment of the mapping comes right before it.
SignalledOnceAfterAssign ==
    /\ Len(Signals) = 1
    /\ Len(log) >= 2
    /\ log[Len(log)] = SignalEv(tb)
    /\ log[Len(log) - 1] = AssignEv
    /\ \A i \in 1..(Len(log) - 2) : log[i] /= AssignEv

\* C8 as stated: a refresh signals once, with all the errors and after the
\* assignment, when it recorded an error, and never when it recorded none.
C8_SignalIffErrors ==
    RefreshRan =>
        /\ tb /= EmptyDict => SignalledOnceAfterAssign
        /\ tb = EmptyDict => Len(Signals) = 0

\* C8, amended: a refresh that runs to its end signals once, with all the
\* errors and after the assignment, when it recorded an error, and never
\* when it recorded none; a refresh that an exception aborts signals
\* nothing, whatever it had recorded.
C8_SignalIffErrorsAndDone ==
    RefreshRan =>
        /\ Len(Signals) <= 1
        /\ (raised = "none" /\ tb /= EmptyDict) => SignalledOnceAfterAssign
        /\ (raised /= "none" \/ tb = EmptyDict) => Len(Signals) = 0

\* A refresh that recorded two errors and signalled them in one call.
C8_Witness ==
    /\ RefreshDone
    /\ Cardinality(DOMAIN tb) >= 2
    /\ SignalledOnceAfterAssign

\* The last operation is contributed_by on an id the mapping does not hold.
AskedUnknown == lastOp = "contributed_by" /\ answer.id \notin DOMAIN contributions

\* C9 as stated: contributed_by on an unknown id returns nothing and does
\* not raise.
C9_UnknownIdReturnsNothing ==
    AskedUnknown => raised = "none" /\ answer.ext = None

\* C9, amended: contributed_by on an unknown id raises KeyError and returns
\* nothing; on an id of the mapping it does not raise.
C9_UnknownIdRaisesKeyError ==
    lastOp = "contributed_by" =>
        IF answer.id \in DOMAIN contributions
        THEN raised = "none"
        ELSE raised = "KeyError" /\ answer.ext = None

\* An unknown id is asked for while the mapping holds another one.
C9_Witness ==
    /\ AskedUnknown
    /\ raised = "KeyError"
    /\ contributions /= EmptyDict

----------------------------------------------------------------------------
(* Properties of the DeclaratorCollector (SpecDecl). *)

\* The operations that run _register_decls.
BatchOps == {"start", "change", "refresh"}

\* The last operation is a batch of _register_decls that returned.
BatchDone == lastOp \in BatchOps /\ raised = "none"

\* The declarator objects extensions may declare.
DeclObjects ==
    {[ext |-> e, id |-> d.id, dep |-> d.dep] : e \in ExtIds, d \in Declarators}

\* The calls of register of the last batch, in order, each with its outcome.
RegisterCalls == SelectSeq(log, LAMBDA x : x.ev \in {"register", "defer"})

\* The last batch called register on c and p and on no other declarator,
\* on c first; c waits for p, p for nothing, and c deferred itself.
ChildThenParent(c, p) ==
    /\ BatchDone
    /\ c.dep = p.id
    /\ p.dep = None
    /\ {<<RegisterCalls[i].ext, RegisterCalls[i].id>> : i \in 1..Len(RegisterCalls)}
           = {<<c.ext, c.id>>, <<p.ext, p.id>>}
    /\ RegisterCalls[1] = DeferEv(c)

\* C10: when a batch of _register_decls registers Child then Parent, and
\* Child defers itself until Parent is registered, then at the return of
\* _register_decls both are registered, the pending list is empty and the
\* error report has no "Missing declarations" entry.
C10_ChildThenParentBothRegistered ==
    \A c, p \in DeclObjects :
        ChildThenParent(c, p) =>
            /\ Registered(contributions, c)
            /\ Registered(contributions, p)
            /\ _delayed = <<>>
            /\ MissingKey \notin DOMAIN tb

\* A batch registered Child then Parent, Child deferred itself and a pass
\* over the pending list registered it.
C10_Witness ==
    \E c, p \in DeclObjects :
        /\ ChildThenParent(c, p)
        /\ RegisterCalls = <<DeferEv(c), RegisterEv(p), RegisterEv(c)>>
        /\ \E i \in 1..Len(log) : log[i] = PassEv

\* The last operation ran _register_decls to its end: every batch but the
\* change that leaves the point empty, which resets the collector instead.
RegisterBatchDone == BatchDone /\ ~(lastOp = "change" /\ extensions = <<>>)

\* The Orphan of extension e: its dependency is never registered.
OrphanOf(e) == [ext |-> e, id |-> Orphan.id, dep |-> Orphan.dep]

\* The last operation recorded a "Missing declarations" entry that names d.
NamedMissing(d) ==
    /\ MissingKey \in DOMAIN tb
    /\ \E i \in 1..Len(log) : log[i] = MissingEv(d)

\* C11 as written: a declarator whose dependency never registers is never
\* in contributions, and over the whole run exactly one "Missing
\* declarations" entry names it: none before the first batch that leaves
\* it pending, one from then on.
C11_StuckReportedOncePerRun ==
    \A e \in ExtIds :
        /\ ~Registered(contributions, OrphanOf(e))
        /\ missingReports[e] <= 1
        /\ (RegisterBatchDone /\ OrphanOf(e) \in Range(_delayed))
               => missingReports[e] = 1

\* C11 amended: a declarator whose dependency never registers is never in
\* contributions, and every batch of _register_decls that returns while it
\* is pending records a "Missing declarations" entry naming it and signals
\* it; a batch that returns without it pending names it in no entry.
C11_StuckReportedEveryBatch ==
    \A e \in ExtIds :
        /\ ~Registered(contributions, OrphanOf(e))
        /\ RegisterBatchDone =>
              /\ NamedMissing(OrphanOf(e)) <=> OrphanOf(e) \in Range(_delayed)
              /\ NamedMissing(OrphanOf(e)) =>
                    /\ log[Len(log)] = SignalEv(tb)
                    /\ missingReports[e] >= 1

\* A second batch returned with the same declarator pending and named it
\* in its own "Missing declarations" entry.
C11_Witness ==
    \E e \in ExtIds :
        /\ RegisterBatchDone
        /\ OrphanOf(e) \in Range(_delayed)
        /\ NamedMissing(OrphanOf(e))
        /\ missingReports[e] = 2

\* The positions of the log at which a pass of the while loop begins.
PassIdx == {i \in 1..Len(log) : log[i].ev = "pass"}

\* The position at which the pass after the one at position i begins, or
\* the end of the log.
NextPass(i) ==
    IF \E j \in PassIdx : j > i
    THEN CHOOSE j \in PassIdx : j > i /\ \A k \in PassIdx : k > i => j <= k
    ELSE Len(log) + 1

\* The number of declarators the pass at position i registers again: the
\* length of the pending list when the pass begins.
PassSize(i) ==
    Cardinality({j \in (i + 1)..(NextPass(i) - 1) :
                    log[j].ev \in {"register", "defer"}})

\* C12: the while loop of _register_decls ends: a pass begins with a
\* pending list that is not empty, every pass but the last begins with
\* fewer pending declarators than the pass before it, and so the loop
\* makes at most as many passes as declarators were pending when it began.
C12_DrainPassesBounded ==
    RegisterBatchDone =>
        /\ \A i \in PassIdx :
              /\ PassSize(i) >= 1
              /\ NextPass(i) <= Len(log) => PassSize(NextPass(i)) < PassSize(i)
        /\ \A i \in PassIdx :
              (\A k \in PassIdx : i <= k) => Cardinality(PassIdx) <= PassSize(i)

\* A batch whose loop made two passes: the first registered one of two
\* pending declarators, the second registered none and ended the loop.
C12_Witness ==
    /\ RegisterBatchDone
    /\ Cardinality(PassIdx) = 2
    /\ \E i \in PassIdx : PassSize(i) = 2
    /\ Len(_delayed) = 1

\* In the log lg every call of unregister comes before every call of
\* register.
UnregisterFirst(lg) ==
    \A i, j \in 1..Len(lg) :
        (lg[i].ev = "unregister" /\ lg[j].ev \in {"register", "defer"}) => i < j

\* C13: when the point changes and extensions remain on it, the observer
\* calls unregister on every declarator it tracks for every removed
\* extension, and on no other, before it calls register on any declarator:
\* no call of unregister follows a call of register.
C13_UnregisterBeforeRegister ==
    [][(lastOp' = "change" /\ extensions' /= <<>>) =>
          /\ \A e \in DOMAIN _extensions :
                e \notin Range(extensions') =>
                    \A k \in 1..Len(_extensions[e]) :
                        \E i \in 1..Len(log') : log'[i] = UnregisterEv(_extensions[e][k])
          /\ \A i \in 1..Len(log') :
                log'[i].ev = "unregister" =>
                    \E e \in DOMAIN _extensions :
                        /\ e \notin Range(extensions')
                        /\ \E k \in 1..Len(_extensions[e]) :
                              log'[i] = UnregisterEv(_extensions[e][k])
          /\ UnregisterFirst(log')]_vars

\* A change removed an extension and added another: a declarator of the
\* first was unregistered and a declarator of the second registered.
C13_Witness ==
    /\ lastOp = "change"
    /\ \E i, j \in 1..Len(log) :
          /\ log[i].ev = "unregister"
          /\ log[j].ev = "register"
          /\ log[i].ext /= log[j].ext
          /\ log[i].ext \notin Range(extensions)
          /\ log[j].ext \in Range(extensions)

\* In the log lg unregister is called on every declarator of the list ds,
\* and before extension e is deleted from self._extensions.
UnregisteredBeforeDrop(lg, e, ds) ==
    \A k \in 1..Len(ds) :
        \E i \in 1..Len(lg) :
            /\ lg[i] = UnregisterEv(ds[k])
            /\ \A j \in 1..Len(lg) : lg[j] = DropEv(e) => i < j

\* C14 as written: whenever a change of the point removes a tracked
\* extension, also when it leaves the point empty, unregister is called on
\* each of its declarators before it is dropped from tracking.
C14_RemovedAlwaysUnregistered ==
    [][lastOp' = "change" =>
          \A e \in DOMAIN _extensions :
              e \notin Range(extensions') =>
                  /\ UnregisteredBeforeDrop(log', e, _extensions[e])
                  /\ e \notin DOMAIN _extensions']_vars

\* C14 amended: when a change removes a tracked extension and leaves
\* extensions on the point, unregister is called on each of its
\* declarators before it is dropped from tracking; when the change leaves
\* the point empty, the mapping is replaced by an empty one and the
\* tracking cleared, and unregister is called on no declarator.
C14_RemovedUnregisteredUnlessEmptied ==
    [][lastOp' = "change" =>
          IF extensions' /= <<>>
          THEN \A e \in DOMAIN _extensions :
                  e \notin Range(extensions') =>
                      /\ UnregisteredBeforeDrop(log', e, _extensions[e])
                      /\ \E j \in 1..Len(log') : log'[j] = DropEv(e)
                      /\ e \notin DOMAIN _extensions'
          ELSE /\ log' = <<AssignEv>>
               /\ contributions' = EmptyDict
               /\ _extensions' = EmptyDict
               /\ _delayed' = _delayed]_vars

\* A change that left an extension on the point removed another one: its
\* registered declarator was unregistered, then it was dropped.
C14_Witness ==
    /\ lastOp = "change"
    /\ extensions /= <<>>
    /\ \E i, j \in 1..Len(log) :
          /\ i < j
          /\ log[i].ev = "unregister"
          /\ log[j] = DropEv(log[i].ext)
          /\ log[i].ext \notin DOMAIN _extensions

\* The number of times the log lg notifies the observers of contributions:
\* at the end of a phase, or by the assignment of the empty mapping.
Notifications(lg) ==
    Cardinality({i \in 1..Len(lg) : lg[i].ev \in {"notify", "assign"}})

\* The mapping contribs after the calls of unregister of the log lg.
AfterUnregister(contribs, lg) ==
    [k \in {x \in DOMAIN contribs :
               ~\E i \in 1..Len(lg) : lg[i] = UnregisterEv(contribs[x])}
        |-> contribs[k]]

\* In the log lg no notification comes between two calls of one phase:
\* none is followed by a call of unregister, and none has calls of
\* register on both sides.
BetweenPhases(lg) ==
    \A i \in 1..Len(lg) :
        lg[i].ev = "notify" =>
            /\ \A j \in (i + 1)..Len(lg) : lg[j].ev /= "unregister"
            /\ ~(/\ \E j \in 1..(i - 1) : lg[j].ev \in {"register", "defer"}
                 /\ \E j \in (i + 1)..Len(lg) : lg[j].ev \in {"register", "defer"})

\* C15 as written: a change of the point that alters the mapping, also one
\* that both removes and adds extensions, notifies the observers of
\* contributions exactly once.
C15_NotifiedOncePerChange ==
    [][(lastOp' = "change" /\ contributions' /= contributions)
          => Notifications(log') = 1]_vars

\* C15 amended: each phase of a change notifies the observers once, at its
\* end, when it altered the mapping, and not otherwise: the calls of
\* unregister once, the calls of register once, so a change that removes
\* and adds extensions notifies up to twice; no notification comes
\* between the calls of one phase.
C15_NotifiedOncePerPhase ==
    [][(lastOp' = "change" /\ extensions' /= <<>>) =>
          LET mid == AfterUnregister(contributions, log')
          IN  /\ Notifications(log') =
                    (IF mid /= contributions THEN 1 ELSE 0)
                    + (IF contributions' /= mid THEN 1 ELSE 0)
              /\ BetweenPhases(log')]_vars

\* A change that removed an extension and added another notified the
\* observers twice: after the calls of unregister, after the calls of
\* register.
C15_Witness ==
    /\ lastOp = "change"
    /\ Notifications(log) = 2
    /\ \E i, j, k \in 1..Len(log) :
          /\ i < j /\ j < k
          /\ log[i].ev = "unregister"
          /\ log[j].ev = "notify"
          /\ log[k].ev = "register"
    /\ log[Len(log)].ev = "notify"

----------------------------------------------------------------------------
(* PriorityHeap of gild/utils/priority_heap.py, after its contract: the    *)
(* entries pair a priority with an item; an entry pushed later goes behind *)
(* the entries of the same priority; iteration yields the items in         *)
(* ascending priority.  A heap is the sequence of its entries in the       *)
(* order iteration yields them.                                            *)

Entry(priority, item) == [priority |-> priority, item |-> item]

\* An entry goes in front of the entries of the same priority.
PushBeforeEqual(h, priority, item) ==
    LET n == Cardinality({i \in 1..Len(h) : h[i].priority < priority})
    IN  InsertAt(h, n + 1, Entry(priority, item))

\* push(priority, item): the entry goes behind every entry whose priority
\* is not greater.
push(h, priority, item) ==
    LET n == Cardinality({i \in 1..Len(h) : h[i].priority <= priority})
    IN  InsertAt(h, n + 1, Entry(priority, item))

\* The position of the first entry that holds the item, 0 without one.
FirstOf(h, item) ==
    IF \E i \in 1..Len(h) : h[i].item = item
    THEN CHOOSE i \in 1..Len(h) :
            /\ h[i].item = item
            /\ \A j \in 1..(i - 1) : h[j].item /= item
    ELSE 0

\* Every entry that holds the item is deleted.
RemoveEvery(h, item) == SelectSeq(h, LAMBDA e : e.item /= item)

\* remove(item): the first entry that holds the item is deleted; a heap
\* without the item stays as it is.
remove(h, item) ==
    LET i == FirstOf(h, item)
    IN  IF i = 0
        THEN h
        ELSE [j \in 1..(Len(h) - 1) |-> IF j < i THEN h[j] ELSE h[j + 1]]

\* Iteration over the heap: the items, entry after entry.
Iterate(h) == [i \in 1..Len(h) |-> h[i].item]

----------------------------------------------------------------------------
(* LifecyclePlugin.  The contributions of its three collectors are the     *)
(* sequences of the values of each mapping, in the mapping's order.        *)

\* AppStartup objects: id and priority.
StartupHooks ==
    {[id |-> "a", priority |-> 10], [id |-> "b", priority |-> 5],
     [id |-> "c", priority |-> 5]}

\* AppClosing objects.
ClosingChecks == {[id |-> "k"], [id |-> "l"]}

\* AppClosed objects: id and priority.
ClosedHooks == {[id |-> "d", priority |-> 20], [id |-> "e", priority |-> 5]}

\* The values of a mapping that holds some of the objects of S, in order.
Mappings(S) ==
    {s \in SeqsUpTo(S, Cardinality(S)) :
        \A i, j \in 1..Len(s) : s[i] = s[j] => i = j}

\* What a close event can be told by a check: accept(), ignore(), nothing.
Verdicts == {"accept", "ignore", "pass"}

\* A call of a hook's method ev, and how the call left it: "returned" or
\* "raised" for run and clean, the state of the close event for validate.
CallEv(ev, item, left) == [ev |-> ev, item |-> item, left |-> left]

\* for r in removed: heap.remove(r)
RECURSIVE RemoveEach(_, _, _)
RemoveEach(h, removed, i) ==
    IF i > Len(removed)
    THEN h
    ELSE RemoveEach(remove(h, removed[i]), removed, i + 1)

\* for a in added: heap.push(a.priority, a)
RECURSIVE PushEach(_, _, _)
PushEach(h, added, i) ==
    IF i > Len(added)
    THEN h
    ELSE PushEach(push(h, added[i].priority, added[i]), added, i + 1)

\* An observer that pushes the new objects and removes none.
PushOnly(h, removed, added) == PushEach(h, added, 1)

\* _update_heap on the heap h of the changed collector; removed and added
\* list old - new and new - old in the order each set is iterated.
_update_heap(h, removed, added) ==
    PushEach(RemoveEach(h, removed, 1), added, 1)

\* The heap of a collector after its contributions changed from old to
\* new: the sets old - new and new - old are iterated in some order.
Updated(h, old, new) ==
    {_update_heap(h, removed, added) :
        removed \in Orders(Range(old) \ Range(new)),
        added \in Orders(Range(new) \ Range(old))}

\* A loop that calls every hook, whatever the calls before it raised.
RECURSIVE DispatchIsolated(_, _, _, _, _)
DispatchIsolated(items, failing, ev, i, lg) ==
    IF i > Len(items)
    THEN [log |-> lg,
          exc |-> IF \E j \in 1..Len(lg) : lg[j].left = "raised"
                  THEN "Exception" ELSE "none"]
    ELSE DispatchIsolated(items, failing, ev, i + 1,
            Append(lg, CallEv(ev, items[i],
                IF items[i] \in failing THEN "raised" ELSE "returned")))

\* The loop of run_app_startup and run_app_cleanup over the items of a
\* heap: the first call that raises ends the loop.
RECURSIVE Dispatch(_, _, _, _, _)
Dispatch(items, failing, ev, i, lg) ==
    IF i > Len(items)
    THEN [log |-> lg, exc |-> "none"]
    ELSE IF items[i] \in failing
         THEN [log |-> Append(lg, CallEv(ev, items[i], "raised")),
               exc |-> "Exception"]
         ELSE Dispatch(items, failing, ev, i + 1,
                       Append(lg, CallEv(ev, items[i], "returned")))

\* The close event after a check told it does.
Told(accepted, does) ==
    IF does = "accept" THEN TRUE ELSE IF does = "ignore" THEN FALSE ELSE accepted

Accepted(accepted) == IF accepted THEN "accepted" ELSE "rejected"

\* A loop over the closing checks that has no break.
RECURSIVE ValidateAll(_, _, _, _, _)
ValidateAll(checks, does, accepted, i, lg) ==
    IF i > Len(checks)
    THEN [log |-> lg, accepted |-> accepted]
    ELSE LET a == Told(accepted, does[checks[i]])
         IN  ValidateAll(checks, does, a, i + 1,
                         Append(lg, CallEv("validate", checks[i], Accepted(a))))

\* The loop of validate_closing over closing.contributions.values(): it
\* breaks after the first check that leaves the event not accepted.
RECURSIVE ValidateLoop(_, _, _, _, _)
ValidateLoop(checks, does, accepted, i, lg) ==
    IF i > Len(checks)
    THEN [log |-> lg, accepted |-> accepted]
    ELSE LET a == Told(accepted, does[checks[i]])
             l == Append(lg, CallEv("validate", checks[i], Accepted(a)))
         IN  IF ~a
             THEN [log |-> l, accepted |-> a]
             ELSE ValidateLoop(checks, does, a, i + 1, l)

\* The variables of the collectors of plugin_tools that keep no trace of
\* the last operation.
collector ==
    <<extensions, contributions, _extensions, _delayed, missingReports,
      observing, held, tb, factoryCalls, synced, prev, answer>>

InitLife == InitExt

\* LifecyclePlugin.start: the three collectors are created and started;
\* each first refresh assigns the contributions found on its point, and
\* the observer _update_heap runs on a change that has no old value.
Life_start ==
    /\ ~started
    /\ started' = TRUE
    /\ \E s \in Mappings(StartupHooks), k \in Mappings(ClosingChecks),
          c \in Mappings(ClosedHooks) :
          /\ startup' = s
          /\ closing' = k
          /\ closed' = c
          /\ _start_heap' \in Updated(_start_heap, <<>>, s)
          /\ _clean_heap' \in Updated(_clean_heap, <<>>, c)
          /\ discovered' = s
    /\ event' = "none"
    /\ lastOp' = "start"
    /\ log' = <<>>
    /\ raised' = "none"
    /\ UNCHANGED <<collector, services, heap, pushed>>

\* LifecyclePlugin.stop: the collectors and the heaps are deleted.
Life_stop ==
    /\ started
    /\ started' = FALSE
    /\ startup' = <<>>
    /\ closing' = <<>>
    /\ closed' = <<>>
    /\ _start_heap' = <<>>
    /\ _clean_heap' = <<>>
    /\ discovered' = <<>>
    /\ event' = "none"
    /\ lastOp' = "stop"
    /\ log' = <<>>
    /\ raised' = "none"
    /\ UNCHANGED <<collector, services, heap, pushed>>

\* The startup collector assigns new contributions: _update_heap runs on
\* the startup heap.  The hooks that stay keep their place in the order of
\* discovery, the new ones follow in the order of the new mapping.
startup_changed ==
    /\ started
    /\ \E new \in Mappings(StartupHooks) \ {startup} :
          /\ startup' = new
          /\ _start_heap' \in Updated(_start_heap, startup, new)
          /\ discovered' =
                SelectSeq(discovered, LAMBDA h : h \in Range(new))
                \o SelectSeq(new, LAMBDA h : h \notin Range(startup))
    /\ event' = "none"
    /\ lastOp' = "startup_changed"
    /\ log' = <<>>
    /\ raised' = "none"
    /\ UNCHANGED <<collector, services, started, closing, closed, _clean_heap, heap, pushed>>

\* The closing collector assigns new contributions: nothing observes it.
closing_changed ==
    /\ started
    /\ \E new \in Mappings(ClosingChecks) \ {closing} : closing' = new
    /\ event' = "none"
    /\ lastOp' = "closing_changed"
    /\ log' = <<>>
    /\ raised' = "none"
    /\ UNCHANGED <<collector, services, started, startup, closed, _start_heap,
                   _clean_heap, discovered, heap, pushed>>

\* The closed collector assigns new contributions: _update_heap runs on
\* the cleanup heap.
closed_changed ==
    /\ started
    /\ \E new \in Mappings(ClosedHooks) \ {closed} :
          /\ closed' = new
          /\ _clean_heap' \in Updated(_clean_heap, closed, new)
    /\ event' = "none"
    /\ lastOp' = "closed_changed"
    /\ log' = <<>>
    /\ raised' = "none"
    /\ UNCHANGED <<collector, services, started, startup, closing, _start_heap,
                   discovered, heap, pushed>>

\* run_app_startup(cmd_args); the run method of the hooks of failing raises.
run_app_startup ==
    /\ started
    /\ \E failing \in SUBSET Range(startup) :
          LET r == Dispatch(Iterate(_start_heap), failing, "run", 1, <<>>)
          IN  /\ log' = r.log
              /\ raised' = r.exc
    /\ event' = "none"
    /\ lastOp' = "run_app_startup"
    /\ UNCHANGED <<collector, services, started, startup, closing, closed, _start_heap,
                   _clean_heap, discovered, heap, pushed>>

\* run_app_cleanup(); the clean method of the hooks of failing raises.
run_app_cleanup ==
    /\ started
    /\ \E failing \in SUBSET Range(closed) :
          LET r == Dispatch(Iterate(_clean_heap), failing, "clean", 1, <<>>)
          IN  /\ log' = r.log
              /\ raised' = r.exc
    /\ event' = "none"
    /\ lastOp' = "run_app_cleanup"
    /\ UNCHANGED <<collector, services, started, startup, closing, closed, _start_heap,
                   _clean_heap, discovered, heap, pushed>>

\* validate_closing(window, event) with a close event that is accepted or
\* not on entry; does tells what each check does with the event.
validate_closing ==
    /\ started
    /\ \E accepted \in BOOLEAN, does \in [Range(closing) -> Verdicts] :
          LET r == ValidateLoop(closing, does, accepted, 1, <<>>)
          IN  /\ log' = <<CallEv("enter", "event", Accepted(accepted))>> \o r.log
              /\ event' = Accepted(r.accepted)
    /\ raised' = "none"
    /\ lastOp' = "validate_closing"
    /\ UNCHANGED <<collector, services, started, startup, closing, closed, _start_heap,
                   _clean_heap, discovered, heap, pushed>>

NextLife ==
    \/ Life_start
    \/ Life_stop
    \/ startup_changed
    \/ closing_changed
    \/ closed_changed
    \/ run_app_startup
    \/ run_app_cleanup
    \/ validate_closing

SpecLife == InitLife /\ [][NextLife]_vars

----------------------------------------------------------------------------
(* Properties of the LifecyclePlugin, checked under SpecLife. *)

\* The place of an object in a sequence that holds it once.
Pos(s, h) == CHOOSE i \in 1..Len(s) : s[i] = h

\* run_app_startup has just run to its end.
StartupRan == lastOp = "run_app_startup" /\ raised = "none"

(* C16: run_app_startup invokes run on every collected startup hook, in    *)
(* ascending priority, and hooks of equal priority in the order in which   *)
(* the collector discovered them, whether they arrived in one change of    *)
(* the contributions or in several.                                        *)
C16_StartupByPriorityThenDiscovery ==
    StartupRan =>
        /\ Len(log) = Len(startup)
        /\ {log[i].item : i \in 1..Len(log)} = Range(startup)
        /\ \A i, j \in 1..Len(log) :
              i < j =>
                 \/ log[i].item.priority < log[j].item.priority
                 \/ /\ log[i].item.priority = log[j].item.priority
                    /\ Pos(discovered, log[i].item) < Pos(discovered, log[j].item)

\* validate_closing has just run.
ClosingRan == lastOp = "validate_closing"

\* The calls of validate that the last validate_closing made, in order.
ValidateCalls == Tail(log)

(* C17: validate_closing invokes the closing checks in the order of the    *)
(* contributions and stops at the first check that leaves the close event  *)
(* rejected: no check after it is invoked; when every invoked check leaves *)
(* the event accepted, all checks are invoked and the event stays          *)
(* accepted.                                                               *)
C17_ClosingStopsAtFirstRejection ==
    ClosingRan =>
        LET calls == ValidateCalls
            n == Len(calls)
        IN  /\ n <= Len(closing)
            /\ \A i \in 1..n :
                  calls[i].ev = "validate" /\ calls[i].item = closing[i]
            /\ \A i \in 1..n : calls[i].left = "rejected" => i = n
            /\ n < Len(closing) => n > 0 /\ calls[n].left = "rejected"
            /\ (n > 0 /\ calls[n].left = "rejected") => event = "rejected"
            /\ (\A i \in 1..n : calls[i].left = "accepted") =>
                  /\ n = Len(closing)
                  /\ event = IF n > 0 THEN "accepted" ELSE log[1].left

\* Two checks are collected, the first one rejected an event that came in
\* accepted, and the second one was not invoked.
C17_Witness ==
    /\ ClosingRan
    /\ Len(closing) = 2
    /\ log[1].left = "accepted"
    /\ Len(ValidateCalls) = 1
    /\ ValidateCalls[1].left = "rejected"
    /\ event = "rejected"

\* The items of the heap that the last operation iterated, in order.
Dispatched ==
    IF lastOp = "run_app_startup" THEN Iterate(_start_heap)
    ELSE IF lastOp = "run_app_cleanup" THEN Iterate(_clean_heap)
    ELSE <<>>

(* C18: when the run of a startup hook raises during run_app_startup, the  *)
(* exception reaches the caller and no hook behind it in the order of the  *)
(* heap is run; the same holds for clean in run_app_cleanup.  Without a    *)
(* raise every hook of the heap is called.                                 *)
C18_RaiseEndsDispatch ==
    lastOp \in {"run_app_startup", "run_app_cleanup"} =>
        /\ Len(log) <= Len(Dispatched)
        /\ \A i \in 1..Len(log) : log[i].item = Dispatched[i]
        /\ \A i \in 1..Len(log) :
              log[i].left = "raised" => i = Len(log) /\ raised = "Exception"
        /\ raised = "none" => Len(log) = Len(Dispatched)
        /\ raised /= "none" => Len(log) > 0 /\ log[Len(log)].left = "raised"

\* The first of three startup hooks raised: it is the only one called.
C18_Witness ==
    /\ lastOp = "run_app_startup"
    /\ Len(_start_heap) = 3
    /\ Len(log) = 1
    /\ log[1].left = "raised"
    /\ raised = "Exception"

----------------------------------------------------------------------------
(* A PriorityHeap used on its own: any items, pushed with any priority and *)
(* removed in any order.                                                   *)

\* The heap holds up to MaxPushes entries.
MaxPushes == 4

\* The items pushed: objects that have no order of their own.
Items == {"p", "q"}

\* The priorities they are pushed with.
Priorities == {1, 5, 20}

\* s without its element at position i.
DeleteAt(s, i) == [j \in 1..(Len(s) - 1) |-> IF j < i THEN s[j] ELSE s[j + 1]]

\* pushed once heap.remove(item) is done: the entry that left the heap
\* leaves the record of the pushes too.
Unpushed(h, item) ==
    IF FirstOf(h, item) = 0
    THEN pushed
    ELSE DeleteAt(pushed,
                  CHOOSE j \in 1..Len(pushed) :
                      /\ pushed[j] = h[FirstOf(h, item)]
                      /\ \A k \in 1..(j - 1) : pushed[k] /= pushed[j])

InitHeap == InitExt

\* heap.push(priority, item)
Heap_push ==
    /\ Len(heap) < MaxPushes
    /\ \E priority \in Priorities, item \in Items :
          /\ heap' = push(heap, priority, item)
          /\ pushed' = Append(pushed, Entry(priority, item))
          /\ log' = <<CallEv("push", item, "returned")>>
    /\ lastOp' = "push"
    /\ raised' = "none"
    /\ UNCHANGED <<collector, services, started, startup, closing, closed, _start_heap,
                   _clean_heap, discovered, event>>

\* heap.remove(item), for an item that the heap holds or not.
Heap_remove ==
    /\ \E item \in Items :
          /\ heap' = remove(heap, item)
          /\ pushed' = Unpushed(heap, item)
          /\ log' = <<CallEv("remove", item, "returned")>>
    /\ lastOp' = "remove"
    /\ raised' = "none"
    /\ UNCHANGED <<collector, services, started, startup, closing, closed, _start_heap,
                   _clean_heap, discovered, event>>

\* for item in heap: the items the iteration yields go to the log.
Heap_iterate ==
    /\ log' = [i \in 1..Len(heap) |-> CallEv("next", Iterate(heap)[i], "returned")]
    /\ lastOp' = "iterate"
    /\ raised' = "none"
    /\ UNCHANGED <<collector, services, lifecycle>>

NextHeap ==
    \/ Heap_push
    \/ Heap_remove
    \/ Heap_iterate

SpecHeap == InitHeap /\ [][NextHeap]_vars

----------------------------------------------------------------------------
(* Properties of the PriorityHeap, checked under SpecHeap. *)

\* The entries of s by ascending priority, those of one priority in the
\* order s has them.
RECURSIVE ByPriority(_, _)
ByPriority(s, ps) ==
    IF ps = {}
    THEN <<>>
    ELSE LET p == CHOOSE x \in ps : \A y \in ps : x <= y
         IN  SelectSeq(s, LAMBDA e : e.priority = p) \o ByPriority(s, ps \ {p})

(* C19: iteration over a PriorityHeap yields the items in ascending        *)
(* (priority, insertion order): whatever was pushed, items of lower        *)
(* priority come first and items of equal priority come in the order they  *)
(* were pushed, whatever the items are.                                    *)
C19_IterationByPriorityThenPushOrder ==
    lastOp = "iterate" =>
        /\ Len(log) = Len(pushed)
        /\ \A i \in 1..Len(log) :
              log[i].item = ByPriority(pushed, Priorities)[i].item
        /\ \A i, j \in 1..Len(heap) :
              i < j => heap[i].priority <= heap[j].priority

\* Priorities 20, 5, 20, 1 were pushed in that order, the first 20 with
\* item p and the second with item q: iteration yielded the item of
\* priority 1, that of priority 5, then p, then q.
C19_Witness ==
    /\ lastOp = "iterate"
    /\ pushed = <<Entry(20, "p"), Entry(5, "p"), Entry(20, "q"), Entry(1, "q")>>
    /\ log = <<CallEv("next", "q", "returned"), CallEv("next", "p", "returned"),
               CallEv("next", "p", "returned"), CallEv("next", "q", "returned")>>

\* The item of the last heap.remove call.
Removed == log[1].item

(* C20: PriorityHeap.remove(item) deletes only the first entry that holds  *)
(* the item and leaves the other entries in the order they had; when no    *)
(* entry holds the item the heap is unchanged and nothing is raised.       *)
C20_RemoveDeletesFirstEntryOnly ==
    [][lastOp' = "remove" =>
          /\ raised' = "none"
          /\ IF \A i \in 1..Len(heap) : heap[i].item /= Removed'
             THEN heap' = heap
             ELSE \E i \in 1..Len(heap) :
                     /\ heap[i].item = Removed'
                     /\ \A j \in 1..(i - 1) : heap[j].item /= Removed'
                     /\ Len(heap') = Len(heap) - 1
                     /\ \A j \in 1..Len(heap') :
                           heap'[j] = IF j < i THEN heap[j] ELSE heap[j + 1]]_vars

\* An item that two entries held was removed: three entries went in, one
\* entry with the item and an entry with the other item are left.
C20_Witness ==
    /\ lastOp = "remove"
    /\ Len(heap) = 2
    /\ \E i \in 1..Len(heap) : heap[i].item = Removed
    /\ \E i \in 1..Len(heap) : heap[i].item /= Removed

----------------------------------------------------------------------------
(* The preference protocol of glaze/utils/atom_util.py: member_to_pref,    *)
(* member_from_pref, preferences_from_members and                          *)
(* update_members_from_preferences on HasPrefAtom objects.                 *)
(*                                                                         *)
(* A Python value is a record [t, v, items]: t is its type, v its content  *)
(* as text, items what it holds.  A HasPrefAtom object holds the values of *)
(* its members in the order of the class, a dict holds its items.          *)

\* A document given to update_members_from_preferences has up to MaxKeys
\* keys.
MaxKeys == 2

Val(t, v) == [t |-> t, v |-> v, items |-> <<>>]
PyNone == Val("none", "")
PyStr(s) == Val("str", s)
PyFloat(x) == Val("float", x)
PyInt(n) == Val("int", n)
PyList(items) == [t |-> "list", v |-> "", items |-> items]
\* An instance of the HasPrefAtom class cls.
PyAtom(cls, values) == [t |-> "atom", v |-> cls, items |-> values]
\* A dict and one of its items.
PyDict(entries) == [t |-> "dict", v |-> "", items |-> entries]
Item(key, value) == [t |-> "item", v |-> key, items |-> <<value>>]
\* What an operation that raised returned.
Nothing == Val("nothing", "")

\* key in d, d[key], and d with d[key] = value (a new key goes last).
HasKey(d, key) == \E i \in 1..Len(d.items) : d.items[i].v = key
Get(d, key) == (CHOOSE e \in Range(d.items) : e.v = key).items[1]
SetItem(d, key, value) ==
    IF HasKey(d, key)
    THEN PyDict([i \in 1..Len(d.items) |->
                    IF d.items[i].v = key THEN Item(key, value) ELSE d.items[i]])
    ELSE PyDict(Append(d.items, Item(key, value)))

\* The values of the "pref" tag: True, False, something else, or a pair of
\* converters; to and from tell how many parameters each converter takes,
\* "None" for no converter.
Tag(kind, to, from) == [kind |-> kind, to |-> to, from |-> from]
PrefTrue == Tag("true", "", "")
PrefFalse == Tag("false", "", "")
PrefOther == Tag("other", "", "")
Untagged == Tag("untagged", "", "")
PrefTags ==
    {PrefTrue, PrefFalse, PrefOther,
     Tag("pair", "3", "3"), Tag("pair", "3", "None"), Tag("pair", "3", "2"),
     Tag("pair", "2", "3")}

\* A member of a class: its name, its place among the members of the
\* class, the atom member it is, the items of an Enum, and its "pref" tag.
Member(name, at, kind, enum, tag) ==
    [name |-> name, at |-> at, kind |-> kind, enum |-> enum, tag |-> tag]

\* The classes of tests/utils/test_atom_util.py: _Aux and the class _Aaux
\* of its nested object.
_Aux ==
    <<Member("string", 1, "Str", {}, PrefTrue),
      Member("float_n", 2, "Float", {}, PrefTrue),
      Member("enum", 3, "Enum", {PyStr("a"), PyStr("b")}, PrefTrue),
      Member("list_", 4, "List", {}, PrefTrue),
      Member("value", 5, "Value", {}, PrefTrue),
      Member("const", 6, "Constant", {}, PrefTrue),
      Member("atom", 7, "Typed", {}, PrefTrue),
      Member("no_tag", 8, "Int", {}, Untagged)>>
_Aaux == <<Member("int_", 1, "Int", {}, PrefTrue)>>
Members(cls) == IF cls = "_Aux" THEN _Aux ELSE _Aaux

\* The member of a class that has the name.
MemberOf(cls, name) == CHOOSE m \in Range(Members(cls)) : m.name = name

\* _Aaux() and _Aux() with their default values.
NewAaux == PyAtom("_Aaux", <<PyInt("0")>>)
NewAux ==
    PyAtom("_Aux", <<PyStr(""), PyFloat("0.0"), PyStr("a"), PyList(<<>>),
                     PyNone, PyStr("r"), NewAaux, PyInt("0")>>)

\* The float an int is promoted to.
Promoted(val) == PyFloat(val.v \o ".0")

\* What atom makes of val when it is assigned to a member: the value kept,
\* or a refusal.
Validated(member, val) ==
    IF member.kind = "Str"
    THEN [ok |-> val.t = "str", value |-> val]
    ELSE IF member.kind = "Int"
    THEN [ok |-> val.t = "int", value |-> val]
    ELSE IF member.kind = "Float"
    THEN [ok |-> val.t \in {"float", "int"},
          value |-> IF val.t = "int" THEN Promoted(val) ELSE val]
    ELSE IF member.kind = "Enum"
    THEN [ok |-> val \in member.enum, value |-> val]
    ELSE IF member.kind = "List"
    THEN [ok |-> /\ val.t = "list"
                 /\ \A i \in 1..Len(val.items) :
                       val.items[i].t \in {"float", "int"},
          value |-> IF val.t = "list"
                    THEN PyList([i \in 1..Len(val.items) |->
                                    IF val.items[i].t = "int"
                                    THEN Promoted(val.items[i])
                                    ELSE val.items[i]])
                    ELSE val]
    ELSE IF member.kind = "Typed"
    THEN [ok |-> val = PyNone \/ (val.t = "atom" /\ val.v = "_Aaux"),
          value |-> val]
    ELSE IF member.kind = "Constant"
    THEN [ok |-> FALSE, value |-> val]
    ELSE [ok |-> TRUE, value |-> val]

\* The converters of a two-element tag: the first one stores the value in
\* a list, the second one takes it out again.
to_pref(val) == PyList(<<val>>)
from_pref(val) ==
    IF val.t = "list" /\ Len(val.items) = 1 THEN val.items[1] ELSE val

\* member_from_pref(obj, member, val)
member_from_pref(member, val) ==
    IF member.tag.kind = "true"
    THEN [exc |-> "none", value |-> val]
    ELSE IF member.tag.kind = "pair"
    THEN IF member.tag.from = "None"
         THEN [exc |-> "none", value |-> val]
         ELSE IF member.tag.from = "3"
         THEN [exc |-> "none", value |-> from_pref(val)]
         ELSE [exc |-> "ValueError", value |-> Nothing]
    ELSE [exc |-> "NotImplementedError", value |-> Nothing]

\* A conversion that writes the value out as text.
member_to_text(member, val) ==
    IF member.tag.kind = "true"
    THEN [exc |-> "none", value |-> PyStr(val.v)]
    ELSE IF member.tag.kind = "pair" /\ member.tag.to = "3"
    THEN [exc |-> "none", value |-> to_pref(val)]
    ELSE [exc |-> "NotImplementedError", value |-> Nothing]

\* A conversion that lets every tag but a pair of converters through.
member_to_any(member, val) ==
    IF member.tag.kind = "pair" /\ member.tag.to = "3"
    THEN [exc |-> "none", value |-> to_pref(val)]
    ELSE IF member.tag.kind = "pair"
    THEN [exc |-> "NotImplementedError", value |-> Nothing]
    ELSE [exc |-> "none", value |-> val]

\* member_to_pref(obj, member, val)
member_to_pref(member, val) ==
    IF member.tag.kind = "true"
    THEN [exc |-> "none", value |-> val]
    ELSE IF member.tag.kind = "pair" /\ member.tag.to = "3"
    THEN [exc |-> "none", value |-> to_pref(val)]
    ELSE [exc |-> "NotImplementedError", value |-> Nothing]

\* tagged_members(obj, "pref"): the members that carry the tag.
WithTag(members) == SelectSeq(members, LAMBDA m : m.tag.kind /= "untagged")
TaggedAux == WithTag(_Aux)
TaggedAaux == WithTag(_Aaux)
tagged_members(cls) == IF cls = "_Aux" THEN TaggedAux ELSE TaggedAaux

\* The loop of preferences_from_members over the tagged members, from the
\* i-th one on; pref is the OrderedDict built so far.  A nested HasPrefAtom
\* gives its own document.
RECURSIVE SaveLoop(_, _, _)
SaveLoop(o, i, pref) ==
    IF i > Len(tagged_members(o.v))
    THEN [exc |-> "none", value |-> pref]
    ELSE LET member == tagged_members(o.v)[i]
             old_val == o.items[member.at]
             r == IF old_val.t = "atom"
                  THEN SaveLoop(old_val, 1, PyDict(<<>>))
                  ELSE member_to_pref(member, old_val)
         IN  IF r.exc /= "none"
             THEN [exc |-> r.exc, value |-> Nothing]
             ELSE SaveLoop(o, i + 1, SetItem(pref, member.name, r.value))

preferences_from_members(o) == SaveLoop(o, 1, PyDict(<<>>))

\* o with the value of a member replaced.
WithMember(o, name, value) ==
    [o EXCEPT !.items[MemberOf(o.v, name).at] = value]

\* A loop that sets a member whatever its current value is.
RECURSIVE LoadOverNone(_, _, _)
LoadOverNone(o, parameters, i) ==
    IF i > Len(tagged_members(o.v))
    THEN [exc |-> "none", obj |-> o]
    ELSE LET member == tagged_members(o.v)[i]
             name == member.name
             old_val == o.items[member.at]
         IN  IF ~HasKey(parameters, name) \/ member.kind = "Constant"
             THEN LoadOverNone(o, parameters, i + 1)
             ELSE IF old_val.t = "atom"
             THEN LET r == LoadOverNone(old_val, Get(parameters, name), 1)
                  IN  IF r.exc /= "none"
                      THEN [exc |-> r.exc, obj |-> WithMember(o, name, r.obj)]
                      ELSE LoadOverNone(WithMember(o, name, r.obj),
                                        parameters, i + 1)
             ELSE LET c == member_from_pref(member, Get(parameters, name))
                  IN  IF c.exc /= "none"
                      THEN [exc |-> c.exc, obj |-> o]
                      ELSE IF ~Validated(member, c.value).ok
                      THEN [exc |-> "ValueError", obj |-> o]
                      ELSE LoadOverNone(
                              WithMember(o, name, Validated(member, c.value).value),
                              parameters, i + 1)

\* The loop of update_members_from_preferences over the tagged members,
\* from the i-th one on.  A nested HasPrefAtom is updated in place, a
\* member that holds None is left alone, and a value that setattr refuses
\* raises ValueError.
RECURSIVE UpdateLoop(_, _, _)
UpdateLoop(o, parameters, i) ==
    IF i > Len(tagged_members(o.v))
    THEN [exc |-> "none", obj |-> o]
    ELSE LET member == tagged_members(o.v)[i]
             name == member.name
             old_val == o.items[member.at]
         IN  IF ~HasKey(parameters, name) \/ member.kind = "Constant"
             THEN UpdateLoop(o, parameters, i + 1)
             ELSE IF old_val.t = "atom"
             THEN LET r == UpdateLoop(old_val, Get(parameters, name), 1)
                  IN  IF r.exc /= "none"
                      THEN [exc |-> r.exc, obj |-> WithMember(o, name, r.obj)]
                      ELSE UpdateLoop(WithMember(o, name, r.obj),
                                    parameters, i + 1)
             ELSE IF old_val = PyNone
             THEN UpdateLoop(o, parameters, i + 1)
             ELSE LET c == member_from_pref(member, Get(parameters, name))
                  IN  IF c.exc /= "none"
                      THEN [exc |-> c.exc, obj |-> o]
                      ELSE IF ~Validated(member, c.value).ok
                      THEN [exc |-> "ValueError", obj |-> o]
                      ELSE UpdateLoop(
                              WithMember(o, name, Validated(member, c.value).value),
                              parameters, i + 1)

update_members_from_preferences(o, parameters) == UpdateLoop(o, parameters, 1)

\* The values a program assigns to the members of an _Aux: the name of the
\* member and the value.
Assignments ==
    {<<"string", PyStr("b")>>, <<"float_n", PyInt("2")>>,
     <<"enum", PyStr("b")>>,
     <<"list_", PyList(<<PyInt("2")>>)>>, <<"value", PyStr("b")>>,
     <<"atom", PyNone>>, <<"atom", NewAaux>>,
     <<"atom", PyAtom("_Aaux", <<PyInt("2")>>)>>}

\* The items of the documents handed to update_members_from_preferences:
\* values the members accept or promote, a value the enum refuses, nested
\* documents the nested object accepts or refuses, and a key of an
\* untagged member.
Entries ==
    {Item("string", PyStr("b")),
     Item("float_n", PyInt("2")),
     Item("enum", PyStr("b")), Item("enum", PyStr("c")),
     Item("value", PyStr("b")),
     Item("const", PyStr("s")),
     Item("atom", PyDict(<<Item("int_", PyInt("2"))>>)),
     Item("atom", PyDict(<<Item("int_", PyStr("b"))>>)),
     Item("no_tag", PyInt("2"))}

\* The keys of a document, in the order the documents below list them.
Keys ==
    <<"string", "float_n", "enum", "list_", "value", "const", "atom",
      "no_tag">>
KeyPlace(key) == CHOOSE i \in 1..Len(Keys) : Keys[i] = key

\* The documents of up to MaxKeys keys.
Documents ==
    {PyDict(s) : s \in {s \in SeqsUpTo(Entries, MaxKeys) :
        \A i \in 1..Len(s) : \A j \in 1..Len(s) :
            i < j => KeyPlace(s[i].v) < KeyPlace(s[j].v)}}

\* The values handed to member_to_pref and member_from_pref.
PrefValues == {PyStr("b"), PyList(<<PyFloat("1.0")>>)}

\* The variables the preference protocol leaves alone.
besidesProtocol == <<collector, lifecycle, preferences, logging, packaging, states, sharing, threading, console>>

InitPref ==
    /\ InitBase
    /\ IdlePreferences /\ IdleLogging /\ IdlePackaging /\ IdleStates /\ IdleSharing
    /\ IdleThreading /\ IdleConsole
    /\ obj = NewAux
    /\ doc = Nothing

\* setattr(obj, name, value) with a value the member accepts.
Pref_setattr ==
    \E a \in Assignments :
        LET r == Validated(MemberOf("_Aux", a[1]), a[2])
        IN  /\ r.ok
            /\ obj' = WithMember(obj, a[1], r.value)
            /\ doc' = Nothing
            /\ lastOp' = "setattr"
            /\ log' = <<>>
            /\ raised' = "none"
            /\ UNCHANGED besidesProtocol

\* doc = obj.preferences_from_members()
Pref_save ==
    LET r == preferences_from_members(obj)
    IN  /\ doc' = r.value
        /\ raised' = r.exc
        /\ lastOp' = "preferences_from_members"
        /\ log' = <<>>
        /\ UNCHANGED <<obj, besidesProtocol>>

\* obj.update_members_from_preferences(parameters)
Pref_update ==
    \E parameters \in Documents :
        LET r == update_members_from_preferences(obj, parameters)
        IN  /\ obj' = r.obj
            /\ doc' = parameters
            /\ raised' = r.exc
            /\ lastOp' = "update_members_from_preferences"
            /\ log' = <<>>
            /\ UNCHANGED besidesProtocol

\* obj.update_members_from_preferences(obj.preferences_from_members())
Pref_round_trip ==
    LET saved == preferences_from_members(obj)
        r == IF saved.exc = "none"
             THEN update_members_from_preferences(obj, saved.value)
             ELSE [exc |-> saved.exc, obj |-> obj]
    IN  /\ obj' = r.obj
        /\ doc' = saved.value
        /\ raised' = r.exc
        /\ lastOp' = "round_trip"
        /\ log' = <<>>
        /\ UNCHANGED besidesProtocol

\* member_to_pref(obj, member, val) on a member with any tag; log keeps the
\* tag and the value given, doc what was returned.
Pref_member_to_pref ==
    \E tag \in PrefTags, val \in PrefValues :
        LET r == member_to_pref(Member("m", 1, "Value", {}, tag), val)
        IN  /\ doc' = r.value
            /\ raised' = r.exc
            /\ lastOp' = "member_to_pref"
            /\ log' = <<CallEv("member_to_pref", tag, val)>>
            /\ UNCHANGED <<obj, besidesProtocol>>

\* member_from_pref(obj, member, val) on a member with any tag.
Pref_member_from_pref ==
    \E tag \in PrefTags, val \in PrefValues :
        LET r == member_from_pref(Member("m", 1, "Value", {}, tag), val)
        IN  /\ doc' = r.value
            /\ raised' = r.exc
            /\ lastOp' = "member_from_pref"
            /\ log' = <<CallEv("member_from_pref", tag, val)>>
            /\ UNCHANGED <<obj, besidesProtocol>>

NextPref ==
    \/ Pref_setattr
    \/ Pref_save
    \/ Pref_update
    \/ Pref_round_trip
    \/ Pref_member_to_pref
    \/ Pref_member_from_pref

SpecPref == InitPref /\ [][NextPref]_vars

----------------------------------------------------------------------------
(* Properties of the preference protocol, checked under SpecPref. *)

\* The tagged members of a and b hold equal values, those of their nested
\* objects included.
RECURSIVE SameTagged(_, _)
SameTagged(a, b) ==
    /\ a.v = b.v
    /\ \A i \in 1..Len(tagged_members(a.v)) :
          LET n == tagged_members(a.v)[i].at
          IN  IF a.items[n].t = "atom" /\ b.items[n].t = "atom"
              THEN SameTagged(a.items[n], b.items[n])
              ELSE a.items[n] = b.items[n]

\* C21: update_members_from_preferences(preferences_from_members(obj))
\* completes and leaves every member tagged pref=True, those of the nested
\* object included, equal to its value before the call.
C21_RoundTripKeepsTaggedMembers ==
    [][lastOp' = "round_trip" => raised' = "none" /\ SameTagged(obj, obj')]_vars

\* A round trip was made on an object whose string, float, enum, list and
\* nested members all hold values other than their defaults.
C21_Witness ==
    /\ lastOp = "round_trip"
    /\ raised = "none"
    /\ obj.items[1] = PyStr("b")
    /\ obj.items[2] = PyFloat("2.0")
    /\ obj.items[3] = PyStr("b")
    /\ obj.items[4] = PyList(<<PyFloat("2.0")>>)
    /\ obj.items[7] = PyAtom("_Aaux", <<PyInt("2")>>)

\* The last operation converted a value for a member tagged pref=False.
ConvertedPrefFalse ==
    /\ lastOp \in {"member_to_pref", "member_from_pref"}
    /\ log[1].item = PrefFalse

\* C22: for a member tagged pref=False, member_to_pref and member_from_pref
\* both raise NotImplementedError and return no value.
C22_PrefFalseRaisesNotImplemented ==
    ConvertedPrefFalse => raised = "NotImplementedError" /\ doc = Nothing

\* member_from_pref was called for a member tagged pref=False.
C22_Witness ==
    /\ ConvertedPrefFalse
    /\ lastOp = "member_from_pref"
    /\ raised = "NotImplementedError"

\* The last step was a call of update_members_from_preferences; doc is the
\* document it was given.
Updating == lastOp' = "update_members_from_preferences"

\* update_members_from_preferences passes over the member: the document
\* has no key for it, it is a Constant, or it holds None.
Skipped(o, parameters, member) ==
    \/ ~HasKey(parameters, member.name)
    \/ member.kind = "Constant"
    \/ o.items[member.at] = PyNone

\* What setattr makes of the document's value for the member.
Converted(parameters, member) ==
    Validated(member, member_from_pref(member, Get(parameters, member.name)).value)

\* The place, among the tagged members of o, of the first one whose value
\* in the document is refused, by the member or by a member of the nested
\* object; one past the last place when there is none.
RECURSIVE FirstRefused(_, _)
FirstRefused(o, parameters) ==
    LET members == tagged_members(o.v)
        Refused(i) ==
            /\ ~Skipped(o, parameters, members[i])
            /\ IF o.items[members[i].at].t = "atom"
               THEN FirstRefused(o.items[members[i].at],
                                 Get(parameters, members[i].name))
                       <= Len(tagged_members(o.items[members[i].at].v))
               ELSE ~Converted(parameters, members[i]).ok
    IN  IF \E i \in 1..Len(members) : Refused(i)
        THEN CHOOSE i \in 1..Len(members) :
                Refused(i) /\ \A j \in 1..(i - 1) : ~Refused(j)
        ELSE Len(members) + 1

\* n is o after update_members_from_preferences(parameters): the members
\* passed over, the member whose value was refused and the members after
\* it are as they were, a nested object is the same object updated from
\* the nested document, and any other member holds the converted value.
RECURSIVE UpdatedFrom(_, _, _)
UpdatedFrom(o, n, parameters) ==
    LET members == tagged_members(o.v)
        first == FirstRefused(o, parameters)
    IN  /\ n.v = o.v
        /\ \A m \in Range(Members(o.v)) :
              m.tag.kind = "untagged" => n.items[m.at] = o.items[m.at]
        /\ \A i \in 1..Len(members) :
              LET m == members[i]
              IN  IF Skipped(o, parameters, m) \/ i > first
                  THEN n.items[m.at] = o.items[m.at]
                  ELSE IF o.items[m.at].t = "atom"
                  THEN UpdatedFrom(o.items[m.at], n.items[m.at],
                                   Get(parameters, m.name))
                  ELSE IF i = first
                  THEN n.items[m.at] = o.items[m.at]
                  ELSE n.items[m.at] = Converted(parameters, m).value

\* C23 as stated: a tagged member that is passed over is unchanged, every
\* other tagged member present in the document holds the converted value
\* after the call, and the call raises ValueError when the member refuses
\* the value.
C23_EveryPresentMemberSet ==
    [][Updating =>
        \A i \in 1..Len(TaggedAux) :
            LET m == TaggedAux[i]
            IN  IF Skipped(obj, doc', m)
                THEN obj'.items[m.at] = obj.items[m.at]
                ELSE IF Converted(doc', m).ok
                THEN obj'.items[m.at] = Converted(doc', m).value
                ELSE raised' = "ValueError"]_vars

\* C23 (amended): a tagged member that is passed over is unchanged; the
\* other tagged members present in the document are handled in the order
\* of the members: a member that holds a nested object keeps the object,
\* which is updated from the nested document, any other member is set to
\* the converted value; the first value that is refused raises ValueError
\* and the members after it are unchanged.
C23_PresentMembersSetInOrder ==
    [][Updating =>
        /\ UpdatedFrom(obj, obj', doc')
        /\ raised' = IF FirstRefused(obj, doc') <= Len(TaggedAux)
                     THEN "ValueError" ELSE "none"]_vars

\* An update from a document with a value for a member that holds None and
\* a nested document for the nested object: the first is as it was, the
\* nested object took the value of the nested document.
C23_Witness ==
    /\ lastOp = "update_members_from_preferences"
    /\ raised = "none"
    /\ doc = PyDict(<<Item("value", PyStr("b")),
                      Item("atom", PyDict(<<Item("int_", PyInt("2"))>>))>>)
    /\ obj.items[5] = PyNone
    /\ obj.items[7] = PyAtom("_Aaux", <<PyInt("2")>>)

----------------------------------------------------------------------------
(* The preference plugin of gild/plugins/preferences/plugin.py, started,   *)
(* with the plugins that contribute a Preferences declaration to it.       *)

\* The manifests of tests/plugins/preferences/test_prefs.py: test.prefs and
\* test.prefs2 contribute a Preferences declaration, test.other does not.
PluginIds == {"test.prefs", "test.prefs2", "test.other"}
Contributors == {"test.prefs", "test.prefs2"}

\* The members of the plugin of a manifest, all tagged pref=True, in the
\* order of tagged_members, and the auto_save list of its Preferences.
MemberNames(p) ==
    IF p = "test.prefs" THEN <<"auto">>
    ELSE <<>>
AutoSave(p) == IF p = "test.prefs" THEN {"auto"} ELSE {}

\* The values given to the members; a Str member starts empty.
Strings == {"", "a"}
NewPlugin(p) == [n \in Range(MemberNames(p)) |-> ""]

\* The preference files: the default one and another one.
DefaultFile == "default.toml"
Paths == {DefaultFile, "custom.toml"}

\* A line of a TOML file: the header of a table (no key), or a key and its
\* value in the table.
Line(table, key, value) == [table |-> table, key |-> key, value |-> value]
NoFile == [exists |-> FALSE, lines |-> {}]
File(lines) == [exists |-> TRUE, lines |-> lines]

\* toml.dump(prefs, f): a table for each plugin id, a line for each of its
\* members.
Dump(prefs) ==
    {Line(p, "", "") : p \in DOMAIN prefs}
        \cup UNION {{Line(p, n, prefs[p][n]) : n \in DOMAIN prefs[p]} :
                        p \in DOMAIN prefs}

\* toml.load(f)
Parse(lines) ==
    [p \in {l.table : l \in lines} |->
        [n \in {l.key : l \in {k \in lines : k.table = p /\ k.key /= ""}} |->
            (CHOOSE l \in lines : l.table = p /\ l.key = n).value]]

\* What a user may have put in a preference file.
Contents ==
    {Dump("test.prefs" :> ("auto" :> "a")),
     Dump("test.prefs2" :> <<>>)}

\* d without the key k.
Dropped(d, k) == [x \in DOMAIN d \ {k} |-> d[x]]

\* ExtensionsCollector._refresh_contributions on the point of the
\* Preferences: the declaration of every registered manifest that
\* contributes one, under the id of the manifest.
Collected(registered) == [p \in registered \cap Contributors |-> AutoSave(p)]

\* A lookup in _prefs alone: KeyError when nothing is stored.
get_stored_preferences(decls, prefs, plugin_id) ==
    IF plugin_id \notin DOMAIN prefs
    THEN [exc |-> "KeyError", value |-> <<>>]
    ELSE [exc |-> "none", value |-> prefs[plugin_id]]

\* PrefPlugin.get_plugin_preferences(plugin_id)
get_plugin_preferences(decls, prefs, plugin_id) ==
    IF plugin_id \notin DOMAIN decls
    THEN [exc |-> "KeyError", value |-> <<>>]
    ELSE IF plugin_id \in DOMAIN prefs
    THEN [exc |-> "none", value |-> prefs[plugin_id]]
    ELSE [exc |-> "none", value |-> <<>>]

\* The dict part of PrefPlugin._auto_save_update(plugin_id, change).
_auto_save_update(prefs, plugin_id, name, value) ==
    IF plugin_id \in DOMAIN prefs
    THEN Put(prefs, plugin_id, Put(prefs[plugin_id], name, value))
    ELSE Put(prefs, plugin_id, name :> value)

\* The state the operations of the plugin work on.
PrefState == [plugins |-> plugins, prefs |-> _prefs, files |-> files,
              observers |-> observers]

\* A setattr whose observer stores the value and leaves the file alone.
SetMemberUnwritten(S, last, p, name, value) ==
    IF <<p, name>> \in S.observers
    THEN [S EXCEPT !.plugins[p][name] = value,
                   !.prefs = _auto_save_update(S.prefs, p, name, value)]
    ELSE [S EXCEPT !.plugins[p][name] = value]

\* setattr(plugin, name, value): atom notifies the observers of the member
\* when the value changes; _auto_save_update stores the value and writes
\* _prefs to the file last.
SetMember(S, last, p, name, value) ==
    IF S.plugins[p][name] = value
    THEN S
    ELSE LET S1 == [S EXCEPT !.plugins[p][name] = value]
             stored == _auto_save_update(S1.prefs, p, name, value)
         IN  IF <<p, name>> \in S1.observers
             THEN [S1 EXCEPT !.prefs = stored,
                             !.files[last] = File(Dump(stored))]
             ELSE S1

\* plugin.update_members_from_preferences(parameters) on members that are
\* all Str members tagged pref=True, from the i-th one on.
RECURSIVE UpdateMembers(_, _, _, _, _)
UpdateMembers(S, last, p, parameters, i) ==
    IF i > Len(MemberNames(p))
    THEN S
    ELSE LET name == MemberNames(p)[i]
         IN  UpdateMembers(
                 IF name \in DOMAIN parameters
                 THEN SetMember(S, last, p, name, parameters[name])
                 ELSE S,
                 last, p, parameters, i + 1)

\* A start that binds the auto-save observers before it updates the
\* members.
StartObserved(S, last, decls, p) ==
    LET created == [S EXCEPT !.plugins = Put(S.plugins, p, NewPlugin(p))]
        r == get_plugin_preferences(decls, S.prefs, p)
    IN  IF p \notin Contributors
        THEN created
        ELSE UpdateMembers([created EXCEPT
                               !.observers = @ \cup {<<p, m>> : m \in decls[p]}],
                           last, p, r.value, 1)

\* workbench.get_plugin(p) for a plugin not created yet:
\* HasPreferencesPlugin.start asks for the stored preferences, updates the
\* members from them and ends with plugin_init_complete, which binds an
\* observer to each member of auto_save.
StartPlugin(S, last, decls, p) ==
    LET created == [S EXCEPT !.plugins = Put(S.plugins, p, NewPlugin(p))]
        r == get_plugin_preferences(decls, S.prefs, p)
        updated == UpdateMembers(created, last, p, r.value, 1)
    IN  IF p \notin Contributors
        THEN created
        ELSE [updated EXCEPT
                 !.observers = @ \cup {<<p, m>> : m \in decls[p]}]

\* get_plugin on each plugin of ps in turn.
RECURSIVE StartEach(_, _, _, _)
StartEach(S, last, decls, ps) ==
    IF ps = {}
    THEN S
    ELSE LET p == CHOOSE x \in ps : TRUE
         IN  StartEach(IF p \in DOMAIN S.plugins
                       THEN S ELSE StartPlugin(S, last, decls, p),
                       last, decls, ps \ {p})

\* load_method(prefs[plugin_id]) on each plugin of ps that is created.
RECURSIVE LoadEach(_, _, _, _)
LoadEach(S, last, prefs, ps) ==
    IF ps = {}
    THEN S
    ELSE LET p == CHOOSE x \in ps : TRUE
         IN  LoadEach(IF p \in DOMAIN S.plugins
                      THEN UpdateMembers(S, last, p, prefs[p], 1) ELSE S,
                      last, prefs, ps \ {p})

\* The variables the preference plugin leaves alone.
besidesPreferences == <<collector, lifecycle, protocol, logging, packaging, states, sharing, threading, console>>

\* PrefPlugin.start ran: the default file is there or not, _prefs holds
\* what it holds, and the collector of the Preferences has started.
InitPrefs ==
    /\ InitBase
    /\ IdleProtocol /\ IdleLogging /\ IdlePackaging /\ IdleStates /\ IdleSharing
    /\ IdleThreading /\ IdleConsole
    /\ workbench = {}
    /\ plugins = <<>>
    /\ _pref_decls = Collected({})
    /\ \E d \in {NoFile} \cup {File(c) : c \in Contents} :
          /\ files = [path \in Paths |-> IF path = DefaultFile THEN d ELSE NoFile]
          /\ _prefs = Parse(d.lines)
    /\ _last_saved_pref_file = DefaultFile
    /\ observers = {}
    /\ result = <<>>

\* The state S becomes the state of the plugin.
Becomes(S) ==
    /\ plugins' = S.plugins
    /\ _prefs' = S.prefs
    /\ files' = S.files
    /\ observers' = S.observers

\* What every operation of the plugin records: its name, for a call about
\* one plugin or member what it was about, and what it raised or returned.
Did(op, item, exc, value) ==
    /\ lastOp' = op
    /\ log' = <<CallEv(op, item, <<>>)>>
    /\ raised' = exc
    /\ result' = value
    /\ UNCHANGED besidesPreferences

\* workbench.register(manifest): the collector refreshes its contributions.
Prefs_register ==
    \E p \in PluginIds \ workbench :
        /\ workbench' = workbench \cup {p}
        /\ _pref_decls' = Collected(workbench')
        /\ Did("register", <<>>, "none", <<>>)
        /\ UNCHANGED <<plugins, _prefs, files, _last_saved_pref_file, observers>>

\* workbench.unregister(plugin_id): the plugin, when created, is stopped
\* and dropped with the observers bound to it, and the collector refreshes
\* its contributions.
Prefs_unregister ==
    \E p \in workbench :
        /\ workbench' = workbench \ {p}
        /\ _pref_decls' = Collected(workbench')
        /\ plugins' = Dropped(plugins, p)
        /\ observers' = {o \in observers : o[1] /= p}
        /\ Did("unregister", <<>>, "none", <<>>)
        /\ UNCHANGED <<_prefs, files, _last_saved_pref_file>>

\* workbench.get_plugin(plugin_id) that creates and starts the plugin.
Prefs_get_plugin ==
    \E p \in workbench \ DOMAIN plugins :
        /\ Becomes(StartPlugin(PrefState, _last_saved_pref_file, _pref_decls, p))
        /\ Did("get_plugin", <<>>, "none", <<>>)
        /\ UNCHANGED <<workbench, _pref_decls, _last_saved_pref_file>>

\* plugin.name = value on a created plugin.
Prefs_setattr ==
    \E p \in DOMAIN plugins :
        \E name \in Range(MemberNames(p)), value \in Strings :
            /\ Becomes(SetMember(PrefState, _last_saved_pref_file, p, name, value))
            /\ Did("setattr", <<p, name, value>>, "none", <<>>)
            /\ UNCHANGED <<workbench, _pref_decls, _last_saved_pref_file>>

\* PrefPlugin.save_preferences(path): every plugin with a declaration is
\* fetched, which creates it if need be, and saves its members.
Prefs_save_preferences ==
    \E path \in Paths :
        LET S == StartEach(PrefState, _last_saved_pref_file, _pref_decls,
                           DOMAIN _pref_decls)
            prefs == [p \in DOMAIN _pref_decls |-> S.plugins[p]]
        IN  /\ Becomes([S EXCEPT !.files[path] = File(Dump(prefs))])
            /\ _last_saved_pref_file' = path
            /\ Did("save_preferences", <<>>, "none", <<>>)
            /\ UNCHANGED <<workbench, _pref_decls>>

\* PrefPlugin.load_preferences(path): nothing without the file; else the
\* tables of the file replace those of _prefs and each created plugin with
\* a declaration loads its table.
Prefs_load_preferences ==
    \E path \in Paths :
        LET prefs == Parse(files[path].lines)
            merged == [p \in DOMAIN _prefs \cup DOMAIN prefs |->
                          IF p \in DOMAIN prefs THEN prefs[p] ELSE _prefs[p]]
        IN  /\ IF files[path].exists
               THEN Becomes(LoadEach([PrefState EXCEPT !.prefs = merged],
                                     _last_saved_pref_file, prefs,
                                     DOMAIN prefs \cap DOMAIN _pref_decls))
               ELSE UNCHANGED <<plugins, _prefs, files, observers>>
            /\ Did("load_preferences", <<>>, "none", <<>>)
            /\ UNCHANGED <<workbench, _pref_decls, _last_saved_pref_file>>

\* PrefPlugin.get_plugin_preferences(plugin_id)
Prefs_get_plugin_preferences ==
    \E p \in PluginIds :
        LET r == get_plugin_preferences(_pref_decls, _prefs, p)
        IN  /\ Did("get_plugin_preferences", p, r.exc, r.value)
            /\ UNCHANGED <<workbench, plugins, _pref_decls, _prefs, files,
                           _last_saved_pref_file, observers>>

NextPrefs ==
    \/ Prefs_register
    \/ Prefs_unregister
    \/ Prefs_get_plugin
    \/ Prefs_setattr
    \/ Prefs_save_preferences
    \/ Prefs_load_preferences
    \/ Prefs_get_plugin_preferences

SpecPrefs == InitPrefs /\ [][NextPrefs]_vars

----------------------------------------------------------------------------
(* Properties of the preference plugin, checked under SpecPrefs. *)

\* The plugin id the last call was about.
Asked == log[1].item

\* C24: get_plugin_preferences(plugin_id) raises KeyError exactly when no
\* Preferences contribution is collected for plugin_id, that is when no
\* registered manifest contributes one under that id; otherwise it returns
\* the mapping stored for the plugin, empty when nothing is stored.
C24_KeyErrorIffNotCollected ==
    lastOp = "get_plugin_preferences" =>
        /\ raised = "KeyError" <=> ~(Asked \in workbench /\ Asked \in Contributors)
        /\ raised \in {"KeyError", "none"}
        /\ raised = "none" =>
              result = IF Asked \in DOMAIN _prefs THEN _prefs[Asked] ELSE <<>>

\* The preferences of a contributor were asked for after it was
\* unregistered, while values are still stored for it.
C24_Witness ==
    /\ lastOp = "get_plugin_preferences"
    /\ Asked = "test.prefs"
    /\ Asked \notin workbench
    /\ Asked \in DOMAIN _prefs
    /\ raised = "KeyError"

\* The last step set a member of a plugin to a new value while an
\* auto-save observer was bound to it, that is after the
\* plugin_init_complete of the plugin and for a member of auto_save.
AutoSaved ==
    /\ lastOp' = "setattr"
    /\ log'[1].item[1] \in DOMAIN plugins
    /\ plugins[log'[1].item[1]][log'[1].item[2]] /= log'[1].item[3]
    /\ <<log'[1].item[1], log'[1].item[2]>> \in observers

\* C25: after plugin_init_complete(plugin_id), every change of a member of
\* auto_save makes _prefs[plugin_id][member] the new value, leaves the
\* rest of _prefs as it was, and rewrites the preference file last used
\* with the content of _prefs, so that the file holds the last value only.
C25_AutoSaveStoresAndWritesLastValue ==
    [][AutoSaved =>
        LET p == log'[1].item[1]
            name == log'[1].item[2]
            value == log'[1].item[3]
        IN  /\ p \in DOMAIN _prefs'
            /\ name \in DOMAIN _prefs'[p]
            /\ _prefs'[p][name] = value
            /\ \A q \in DOMAIN _prefs : q /= p => q \in DOMAIN _prefs' /\ _prefs'[q] = _prefs[q]
            /\ DOMAIN _prefs' = DOMAIN _prefs \cup {p}
            /\ files'[_last_saved_pref_file].exists
            /\ Parse(files'[_last_saved_pref_file].lines) = _prefs'
            /\ \A path \in Paths \ {_last_saved_pref_file} : files'[path] = files[path]]_vars

\* The auto-saved member of test.prefs was changed to "" after it had been
\* changed to "a": _prefs and the default file hold "" for it.
C25_Witness ==
    /\ lastOp = "setattr"
    /\ log[1].item = <<"test.prefs", "auto", "">>
    /\ <<"test.prefs", "auto">> \in observers
    /\ "test.prefs" \in DOMAIN _prefs
    /\ _prefs["test.prefs"] = ("auto" :> "")
    /\ _last_saved_pref_file = DefaultFile
    /\ files[DefaultFile] = File(Dump(_prefs))

----------------------------------------------------------------------------
(* The log plugin of gild/plugins/log/plugin.py: the registries of the     *)
(* handlers and of the filters.                                            *)

\* The ids, the handlers, the filters and the logger names the calls are
\* made with; NotAFilter is an object without a filter attribute.
HandlerIds == {"ui", "file"}
Handlers == {"h1", "h2"}
LoggerNames == {"test"}
FilterIds == {"filter", "filter2"}
NotAFilter == "object"
Filters == {"f1", NotAFilter}

\* An item of a dict: the key and the pair it maps to.
Pair(id, first, second) == [id |-> id, first |-> first, second |-> second]

\* list(d.keys()), id in d, d[id], d[id] = (first, second) and del d[id]
\* for a dict kept as the sequence of its items.
KeysOf(d) == [i \in 1..Len(d) |-> d[i].id]
In(id, d) == \E i \in 1..Len(d) : d[i].id = id
At(d, id) == d[CHOOSE i \in 1..Len(d) : d[i].id = id]
Set(d, id, first, second) ==
    IF In(id, d)
    THEN [i \in 1..Len(d) |-> IF d[i].id = id THEN Pair(id, first, second) ELSE d[i]]
    ELSE Append(d, Pair(id, first, second))
Del(d, id) == SelectSeq(d, LAMBDA e : e.id /= id)

\* The registries of the plugin.
LogState == [handlers |-> _handlers, filters |-> _filters,
             handler_ids |-> handler_ids, filter_ids |-> filter_ids,
             loggers |-> loggers, attached |-> attached]

\* LogPlugin.add_handler(id, handler, logger)
add_handler(S, id, handler, logger) ==
    LET handlers == Set(S.handlers, id, handler, logger)
    IN  [S EXCEPT !.loggers = @ \cup {<<logger, handler>>},
                  !.handlers = handlers,
                  !.handler_ids = KeysOf(handlers)]

\* The loop of remove_handler over filter_ids, from the i-th id on: the
\* filters attached to the handler are deleted from the registry.
RECURSIVE DeleteFilters(_, _, _, _)
DeleteFilters(filters, ids, id, i) ==
    IF i > Len(ids)
    THEN filters
    ELSE DeleteFilters(IF At(filters, ids[i]).second = id
                       THEN Del(filters, ids[i]) ELSE filters,
                       ids, id, i + 1)

\* A removal that leaves the filters of the handler in the registry.
remove_handler_only(S, id) ==
    IF In(id, S.handlers)
    THEN [S EXCEPT !.loggers = @ \ {<<At(S.handlers, id).second,
                                      At(S.handlers, id).first>>},
                   !.handlers = Del(S.handlers, id),
                   !.handler_ids = KeysOf(Del(S.handlers, id))]
    ELSE S

\* LogPlugin.remove_handler(id)
remove_handler(S, id) ==
    IF In(id, S.handlers)
    THEN LET handlers == Del(S.handlers, id)
             filters == DeleteFilters(S.filters, S.filter_ids, id, 1)
         IN  [S EXCEPT !.loggers = @ \ {<<At(S.handlers, id).second,
                                           At(S.handlers, id).first>>},
                       !.handlers = handlers,
                       !.filters = filters,
                       !.filter_ids = KeysOf(filters),
                       !.handler_ids = KeysOf(handlers)]
    ELSE S

\* LogPlugin.add_filter(id, filter, handler_id)
add_filter(S, id, filter, handler_id) ==
    IF filter = NotAFilter
    THEN S
    ELSE IF In(handler_id, S.handlers)
    THEN LET filters == Set(S.filters, id, filter, handler_id)
         IN  [S EXCEPT !.attached = @ \cup {<<At(S.handlers, handler_id).first, filter>>},
                       !.filters = filters,
                       !.filter_ids = KeysOf(filters)]
    ELSE S

\* LogPlugin.remove_filter(id)
remove_filter(S, id) ==
    IF In(id, S.filters)
    THEN LET filters == Del(S.filters, id)
             handler == At(S.handlers, At(S.filters, id).second).first
         IN  [S EXCEPT !.attached = @ \ {<<handler, At(S.filters, id).first>>},
                       !.filters = filters,
                       !.filter_ids = KeysOf(filters)]
    ELSE S

\* The variables the log plugin leaves alone.
besidesLogging == <<collector, lifecycle, protocol, preferences, packaging, states, sharing, threading, console>>

\* The plugin after construction.
InitLog ==
    /\ InitBase
    /\ IdleProtocol /\ IdlePreferences /\ IdlePackaging /\ IdleStates /\ IdleSharing
    /\ IdleThreading /\ IdleConsole
    /\ _handlers = <<>>
    /\ _filters = <<>>
    /\ handler_ids = <<>>
    /\ filter_ids = <<>>
    /\ loggers = {}
    /\ attached = {}

\* The state S becomes the state of the plugin after the call op, which
\* took from the registry of the filters the ids of log.
Logged(S, op) ==
    /\ _handlers' = S.handlers
    /\ _filters' = S.filters
    /\ handler_ids' = S.handler_ids
    /\ filter_ids' = S.filter_ids
    /\ loggers' = S.loggers
    /\ attached' = S.attached
    /\ lastOp' = op
    /\ log' = SelectSeq(filter_ids, LAMBDA f : ~In(f, S.filters))
    /\ raised' = "none"
    /\ UNCHANGED besidesLogging

Log_add_handler ==
    \E id \in HandlerIds, handler \in Handlers, logger \in LoggerNames :
        Logged(add_handler(LogState, id, handler, logger), "add_handler")

Log_remove_handler ==
    \E id \in HandlerIds :
        Logged(remove_handler(LogState, id), "remove_handler")

Log_add_filter ==
    \E id \in FilterIds, filter \in Filters, handler_id \in HandlerIds :
        Logged(add_filter(LogState, id, filter, handler_id), "add_filter")

Log_remove_filter ==
    \E id \in FilterIds :
        Logged(remove_filter(LogState, id), "remove_filter")

NextLog ==
    \/ Log_add_handler
    \/ Log_remove_handler
    \/ Log_add_filter
    \/ Log_remove_filter

SpecLog == InitLog /\ [][NextLog]_vars

----------------------------------------------------------------------------
(* Properties of the log plugin, checked under SpecLog. *)

\* C26: after any sequence of add_handler, remove_handler, add_filter and
\* remove_filter, handler_ids is the list of the keys of the registry of
\* the handlers, filter_ids the list of the keys of the registry of the
\* filters, and every filter of the registry names a handler id that is
\* registered.
C26_IdsMatchRegistries ==
    /\ handler_ids = KeysOf(_handlers)
    /\ filter_ids = KeysOf(_filters)
    /\ \A i \in 1..Len(_filters) : In(_filters[i].second, _handlers)

\* remove_handler took a filter of the handler away and left a filter of
\* another handler.
C26_Witness ==
    /\ lastOp = "remove_handler"
    /\ log /= <<>>
    /\ filter_ids /= <<>>
    /\ handler_ids /= <<>>

----------------------------------------------------------------------------
(* The packages plugin of gild/plugins/packages/plugin.py:                 *)
(* collect_and_register and stop, run against a workbench.                 *)

\* Longest list of manifests the factory of an entry point returns.
MaxManifests == 2

\* getattr(inst, "priority", 100): the priority of a manifest without one.
DefaultPriority == 100

\* The manifests of the extension packages: glaze.test1 and glaze.test3
\* declare no priority, glaze.test2 declares the priority 0.
ManifestIds == {"glaze.test1", "glaze.test2", "glaze.test3"}
PriorityOf(id) == IF id = "glaze.test2" THEN 0 ELSE DefaultPriority

\* The place of an id in the order of the strings.
IdRank(id) ==
    IF id = "glaze.test1" THEN 1 ELSE IF id = "glaze.test2" THEN 2 ELSE 3

\* An entry point: its name and what loading it gives: a failure of load,
\* a failure of the factory, something that is no list, a list with
\* something that is no manifest, or a list of manifests.
EntryPoint(name, kind, ms) == [name |-> name, kind |-> kind, ms |-> ms]
PackageNames == {"test", "test2"}
EntryPointsOf(name) ==
    {EntryPoint(name, kind, <<>>) :
        kind \in {"load", "factory", "not a list", "not manifests"}}
        \cup {EntryPoint(name, "manifests", ms) :
                ms \in SeqsUpTo(ManifestIds, MaxManifests)}

\* The sets of entry points: at most one for each package name.
EntryPointSets ==
    {{}} \cup {{e} : e \in UNION {EntryPointsOf(name) : name \in PackageNames}}
         \cup {{e1, e2} : e1 \in EntryPointsOf("test"), e2 \in EntryPointsOf("test2")}

\* An entry of packages: the message for a package that was not loaded, or
\* the ids of the manifests of the package that were registered.
NotLoaded(kind) == [message |-> kind, registered |-> {}]
Loaded(ids) == [message |-> "", registered |-> ids]

\* An entry of _registered and a signalled error.
Registration(priority, index, id) ==
    [priority |-> priority, index |-> index, id |-> id]
Signal(kind, id) == [kind |-> kind, id |-> id]

\* The loop over the manifests of an entry point, from the i-th one on:
\* workbench.register raises ValueError for an id that is registered,
\* which is signalled; a manifest that is registered is recorded with its
\* priority and the number of manifests recorded before it.
RECURSIVE RegisterLoop(_, _, _, _)
RegisterLoop(S, name, ms, i) ==
    IF i > Len(ms)
    THEN S
    ELSE RegisterLoop(
            IF ms[i] \in S.manifests
            THEN [S EXCEPT !.signalled = Append(@, Signal("registering", ms[i]))]
            ELSE [S EXCEPT
                     !.manifests = @ \cup {ms[i]},
                     !.packages[name] = Loaded(@.registered \cup {ms[i]}),
                     !.registered = Append(@, Registration(PriorityOf(ms[i]),
                                                           Len(@), ms[i]))],
            name, ms, i + 1)

\* The loop of collect_and_register over the entry points, from the i-th
\* one on.
RECURSIVE CollectLoop(_, _, _)
CollectLoop(S, eps, i) ==
    IF i > Len(eps)
    THEN S
    ELSE LET ep == eps[i]
         IN  CollectLoop(
                 IF ep.kind /= "manifests"
                 THEN [S EXCEPT
                          !.packages = Put(@, ep.name, NotLoaded(ep.kind)),
                          !.signalled = Append(@, Signal("package", ep.name))]
                 ELSE RegisterLoop(
                          [S EXCEPT !.packages = Put(@, ep.name, Loaded({}))],
                          ep.name, ep.ms, 1),
                 eps, i + 1)

\* a sorts before b as a tuple (priority, index, id): the ids are
\* compared only when the priorities and the indexes are equal.
Before(a, b) ==
    \/ a.priority < b.priority
    \/ a.priority = b.priority /\ a.index < b.index
    \/ a.priority = b.priority /\ a.index = b.index /\ IdRank(a.id) < IdRank(b.id)

\* The entries sorted by priority, then by id.
sorted_by_id(registered) ==
    CHOOSE s \in Orders(Range(registered)) :
        \A i \in 1..Len(s) : \A j \in 1..Len(s) :
            i < j =>
                \/ s[i].priority < s[j].priority
                \/ s[i].priority = s[j].priority /\ IdRank(s[i].id) < IdRank(s[j].id)

\* sorted(self._registered)
sorted(registered) ==
    CHOOSE s \in Orders(Range(registered)) :
        \A i \in 1..Len(s) : \A j \in 1..Len(s) : i < j => Before(s[i], s[j])

\* The loop of stop over the sorted entries, from the i-th one on:
\* workbench.unregister raises ValueError for an id that is not
\* registered, which ends stop.
RECURSIVE UnregisterEach(_, _, _)
UnregisterEach(S, entries, i) ==
    IF i > Len(entries)
    THEN S
    ELSE IF entries[i].id \notin S.manifests
    THEN [S EXCEPT !.exc = "ValueError"]
    ELSE UnregisterEach([S EXCEPT !.manifests = @ \ {entries[i].id},
                                  !.log = Append(@, entries[i])],
                        entries, i + 1)

\* The variables the packages plugin leaves alone.
besidesPackaging == <<collector, lifecycle, protocol, preferences, logging, states, sharing, threading, console>>

\* The plugin after construction, in a workbench where glaze.test3 is
\* registered already or not.
InitPack ==
    /\ InitBase
    /\ IdleProtocol /\ IdlePreferences /\ IdleLogging /\ IdleStates /\ IdleSharing
    /\ IdleThreading /\ IdleConsole
    /\ manifests \in {{}, {"glaze.test3"}}
    /\ packages = <<>>
    /\ _registered = <<>>
    /\ signalled = <<>>
    /\ collected = FALSE

\* PackagesPlugin.collect_and_register(), which the startup of the
\* application runs once: the entry points are a set, gone through in any
\* order.
Pack_collect_and_register ==
    /\ ~collected
    /\ \E eps \in EntryPointSets : \E order \in Orders(eps) :
          LET S == CollectLoop([manifests |-> manifests, packages |-> <<>>,
                                registered |-> <<>>, signalled |-> <<>>],
                               order, 1)
          IN  /\ manifests' = S.manifests
              /\ packages' = S.packages
              /\ _registered' = S.registered
              /\ signalled' = S.signalled
    /\ collected' = TRUE
    /\ lastOp' = "collect_and_register"
    /\ log' = <<>>
    /\ raised' = "none"
    /\ UNCHANGED besidesPackaging

\* PackagesPlugin.stop(); log keeps the entries of the manifests it
\* unregistered, in order.
Pack_stop ==
    LET S == UnregisterEach([manifests |-> manifests, log |-> <<>>, exc |-> "none"],
                            sorted(_registered), 1)
    IN  /\ manifests' = S.manifests
        /\ log' = S.log
        /\ raised' = S.exc
        /\ IF S.exc = "none"
           THEN packages' = <<>> /\ _registered' = <<>>
           ELSE UNCHANGED <<packages, _registered>>
        /\ collected' = FALSE
        /\ signalled' = <<>>
        /\ lastOp' = "stop"
        /\ UNCHANGED besidesPackaging

NextPack ==
    \/ Pack_collect_and_register
    \/ Pack_stop

SpecPack == InitPack /\ [][NextPack]_vars

----------------------------------------------------------------------------
(* Properties of the packages plugin, checked under SpecPack. *)

\* collect_and_register recorded exactly the manifests it registered:
\* each id it added to the workbench once, none that was refused, with
\* indexes that count the entries, and the entries of the packages hold
\* the same ids.
RecordedRegistrations ==
    /\ {_registered'[i].id : i \in 1..Len(_registered')} = manifests' \ manifests
    /\ \A i \in 1..Len(_registered') :
          /\ _registered'[i].index = i - 1
          /\ _registered'[i].priority = PriorityOf(_registered'[i].id)
          /\ \A j \in 1..Len(_registered') :
                _registered'[i].id = _registered'[j].id => i = j
    /\ UNION {packages'[n].registered : n \in DOMAIN packages'} = manifests' \ manifests
    /\ \A i \in 1..Len(signalled') :
          signalled'[i].kind = "registering" =>
              /\ signalled'[i].id \in manifests'
              /\ signalled'[i].id \in manifests
                    \/ \E j \in 1..Len(_registered') :
                          _registered'[j].id = signalled'[i].id

\* stop unregistered every recorded manifest, by ascending priority and,
\* for equal priorities, in the order of registration, and left packages
\* and _registered empty.
UnregisteredInOrder ==
    /\ raised' = "none"
    /\ Range(log') = Range(_registered)
    /\ Len(log') = Len(_registered)
    /\ \A i \in 1..Len(log') : \A j \in 1..Len(log') :
          i < j =>
              \/ log'[i].priority < log'[j].priority
              \/ log'[i].priority = log'[j].priority /\ log'[i].index < log'[j].index
    /\ manifests' = manifests \ {_registered[i].id : i \in 1..Len(_registered)}
    /\ packages' = <<>>
    /\ _registered' = <<>>

\* C27: stop unregisters the manifests that collect_and_register recorded
\* in ascending (priority, registration index) order, whatever their ids,
\* and leaves packages and _registered empty; a manifest whose
\* registration raised ValueError is recorded neither in _registered nor
\* among the registered manifests of its package.
C27_StopUnregistersByPriorityThenIndex ==
    [][/\ lastOp' = "collect_and_register" => RecordedRegistrations
       /\ lastOp' = "stop" => UnregisteredInOrder]_vars

\* stop unregistered glaze.test2 first, then glaze.test3 and glaze.test1,
\* which have the same priority and were registered in that order.
C27_Witness ==
    /\ lastOp = "stop"
    /\ Len(log) = 3
    /\ log[1].id = "glaze.test2"
    /\ log[2].id = "glaze.test3"
    /\ log[3].id = "glaze.test1"
    /\ _registered = <<>>

----------------------------------------------------------------------------
(* A state holder of glaze/plugins/states/plugin.py: _StateHolder with one *)
(* sync member, written by its users and by the plugin it reflects.        *)

\* Deepest nesting of _setting_allowed contexts.
MaxDepth == 2

\* The attributes written: the two Bool members of _StateHolder, the sync
\* member, a Value, and a name the class has no member for.
AttributeNames == {"alive", "_allow_set", "sync", "unknown"}

\* The values written, as Python prints them.
Written == {"True", "False", "1", "2"}

\* The holder of a plugin whose sync member is 1, after _build_state.
NewHolder == [alive |-> "True", _allow_set |-> "False", sync |-> "1"]

\* object.__setattr__ on the Atom: a name without a member raises
\* AttributeError, a Bool member takes a bool only.
AtomSet(h, name, value) ==
    IF name = "unknown"
    THEN [exc |-> "AttributeError", holder |-> h]
    ELSE IF name \in {"alive", "_allow_set"} /\ value \notin {"True", "False"}
    THEN [exc |-> "TypeError", holder |-> h]
    ELSE [exc |-> "none", holder |-> [h EXCEPT ![name] = value]]

\* A __setattr__ that lets every write through.
unguarded_setattr(h, name, value) == AtomSet(h, name, value)

\* _StateHolder.__setattr__(name, value)
__setattr__(h, name, value) ==
    IF h._allow_set = "True" \/ name = "_allow_set"
    THEN AtomSet(h, name, value)
    ELSE [exc |-> "AttributeError", holder |-> h]

\* _StateHolder._updater(changes): the write happens inside the context,
\* which ends with _allow_set = False whether the write raised or not.
_updater(h, name, value) ==
    LET entered == __setattr__(h, "_allow_set", "True").holder
        r == __setattr__(entered, name, value)
    IN  [exc |-> r.exc, holder |-> __setattr__(r.holder, "_allow_set", "False").holder]

\* The variables a state holder leaves alone.
besidesStates == <<collector, lifecycle, protocol, preferences, logging, packaging, sharing, threading, console>>

InitHolder ==
    /\ InitBase
    /\ IdleProtocol /\ IdlePreferences /\ IdleLogging /\ IdlePackaging /\ IdleSharing
    /\ IdleThreading /\ IdleConsole
    /\ holder = NewHolder
    /\ within = 0

\* What an operation on the holder records: its name, the attribute and
\* the value written, and what it raised.
Wrote(op, name, value, exc) ==
    /\ lastOp' = op
    /\ log' = <<CallEv(op, name, value)>>
    /\ raised' = exc
    /\ UNCHANGED besidesStates

\* holder.name = value, by anyone, at any time.
Holder_setattr ==
    \E name \in AttributeNames, value \in Written :
        LET r == __setattr__(holder, name, value)
        IN  /\ holder' = r.holder
            /\ Wrote("setattr", name, value, r.exc)
            /\ UNCHANGED within

\* with holder._setting_allowed(): the context is entered.
Holder_enter ==
    /\ within < MaxDepth
    /\ holder' = __setattr__(holder, "_allow_set", "True").holder
    /\ within' = within + 1
    /\ Wrote("enter", "", "", "none")

\* The body of a with holder._setting_allowed() ends, by itself or with an
\* exception, which goes on after the finally clause.
Holder_exit ==
    /\ within > 0
    /\ holder' = __setattr__(holder, "_allow_set", "False").holder
    /\ within' = within - 1
    /\ \E exc \in {"none", "Exception"} : Wrote("exit", "", "", exc)

\* holder._updater(changes), the observer of the sync member.
Holder_updater ==
    \E value \in Written :
        LET r == _updater(holder, "sync", value)
        IN  /\ holder' = r.holder
            /\ Wrote("_updater", "sync", value, r.exc)
            /\ UNCHANGED within

NextHolder ==
    \/ Holder_setattr
    \/ Holder_enter
    \/ Holder_exit
    \/ Holder_updater

SpecHolder == InitHolder /\ [][NextHolder]_vars

----------------------------------------------------------------------------
(* Properties of the state holder, checked under SpecHolder. *)

\* The last step was a write of an attribute.
Writing == lastOp' = "setattr"

\* C28 as stated: any attribute write outside the _setting_allowed context
\* raises AttributeError and leaves the holder unchanged.
C28_EveryWriteOutsideRefused ==
    [][Writing /\ within = 0 =>
        raised' = "AttributeError" /\ holder' = holder]_vars

\* C28 (amended): while _allow_set is False, a write of any attribute but
\* _allow_set itself raises AttributeError and leaves the holder
\* unchanged; every exit of the context, normal or by exception, and every
\* _updater leave _allow_set False; and outside the context _allow_set is
\* True only after a direct write of _allow_set.
C28_WritesRefusedWhileNotAllowed ==
    [][/\ Writing /\ holder._allow_set = "False" /\ log'[1].item /= "_allow_set" =>
            raised' = "AttributeError" /\ holder' = holder
       /\ lastOp' \in {"exit", "_updater"} => holder'._allow_set = "False"
       /\ within' = 0 /\ holder'._allow_set = "True" =>
            \/ within = 0 /\ holder._allow_set = "True"
            \/ Writing /\ log'[1].item = "_allow_set"]_vars

\* A write of the sync member was refused outside the context, after a
\* write inside a context had changed it.
C28_Witness ==
    /\ lastOp = "setattr"
    /\ log[1].item = "sync"
    /\ raised = "AttributeError"
    /\ within = 0
    /\ holder._allow_set = "False"
    /\ holder.sync = "2"

----------------------------------------------------------------------------
(* The extensions a batch of _register_decls finds tracked (SpecDecl). *)

\* The batch of the step met extension e, which self._extensions held.
MetTracked(e) ==
    /\ e \in DOMAIN _extensions
    /\ \E i \in 1..Len(log') : log'[i] = TrackedEv(e)

\* The register calls of the step made by the loop over new_extensions,
\* before the first pass over the pending list.
FirstCalls ==
    SelectSeq([i \in 1..Len(log') |->
                  IF \E j \in 1..i : log'[j] = PassEv
                  THEN PassEv ELSE log'[i]],
              LAMBDA x : x.ev \in {"register", "defer"})

\* C29: a batch of _register_decls leaves an extension it finds tracked
\* as it is: the list self._extensions holds for it is the same after the
\* batch, and the loop over new_extensions calls register once on each
\* declarator of the extensions that were not tracked, and on no other.
C29_TrackedExtensionsUntouched ==
    [][\A e \in ExtIds :
          MetTracked(e) =>
              /\ e \in DOMAIN _extensions'
              /\ _extensions'[e] = _extensions[e]
              /\ \A i, j \in 1..Len(FirstCalls) :
                    (FirstCalls[i].ext = FirstCalls[j].ext
                     /\ FirstCalls[i].id = FirstCalls[j].id) => i = j]_vars

----------------------------------------------------------------------------
(* The heaps of the LifecyclePlugin and the contributions (SpecLife). *)

\* The heap h holds each object of the values of a mapping in one entry,
\* pushed with the priority of the object, and no other entry.
HoldsExactly(h, values) ==
    /\ Len(h) = Len(values)
    /\ {h[i].item : i \in 1..Len(h)} = Range(values)
    /\ \A i \in 1..Len(h) : h[i].priority = h[i].item.priority

\* C30: while the plugin is started, the startup heap holds exactly the
\* values of startup.contributions, each once, none stale and none
\* missing, and the cleanup heap exactly those of closed.contributions.
C30_HeapsHoldTheContributions ==
    started =>
        /\ HoldsExactly(_start_heap, startup)
        /\ HoldsExactly(_clean_heap, closed)

\* A change of the startup contributions left two hooks, which the heap
\* iterates by priority, b before a, while the mapping lists a first; the
\* cleanup heap holds the two cleanup hooks.
C30_Witness ==
    /\ started
    /\ lastOp = "startup_changed"
    /\ Len(startup) = 2
    /\ startup[1].id = "a"
    /\ Iterate(_start_heap) = <<startup[2], startup[1]>>
    /\ Len(_clean_heap) = 2

----------------------------------------------------------------------------
(* The mapping object of a DeclaratorCollector a caller holds (SpecDecl). *)

\* C31: the mapping object a caller obtained before a batch of a
\* DeclaratorCollector keeps its content when the declarators of the
\* batch register or unregister: what the caller sees in it after the
\* batch is what it held when the caller took it.
C31_HeldMappingKeepsContent ==
    lastOp \in BatchOps => held.seen = held.taken

----------------------------------------------------------------------------
(* The start of a plugin with preferences (SpecPrefs). *)

\* The plugins the step created and started.
StartedNow == DOMAIN plugins' \ DOMAIN plugins

\* C32: the start of a plugin assigns the stored preferences to its
\* members before plugin_init_complete binds the auto-save observers: the
\* start writes no file and stores nothing in _prefs, the members that
\* have a stored value hold it, and the observers are bound afterwards.
C32_StartNeverAutoSaves ==
    [][lastOp' = "get_plugin" =>
        /\ files' = files
        /\ _prefs' = _prefs
        /\ \A p \in StartedNow :
              /\ \A n \in DOMAIN plugins'[p] :
                    (p \in DOMAIN _prefs /\ n \in DOMAIN _prefs[p])
                        => plugins'[p][n] = _prefs[p][n]
              /\ p \in DOMAIN _pref_decls =>
                    \A m \in _pref_decls[p] : <<p, m>> \in observers']_vars

\* test.prefs has just started with the stored value of its auto-save
\* member, while the file written last holds other preferences than
\* _prefs: a write during the start would have changed it.
C32_Witness ==
    /\ lastOp = "get_plugin"
    /\ "test.prefs" \in DOMAIN plugins
    /\ plugins["test.prefs"]["auto"] = "a"
    /\ <<"test.prefs", "auto">> \in observers
    /\ files[_last_saved_pref_file] /= File(Dump(_prefs))

----------------------------------------------------------------------------
(* The StatePlugin of glaze/plugins/states/plugin.py: get_state,           *)
(* _build_state and _notify_states_death, with the plugins that contribute *)
(* states.  A holder object is known by its number in holders.             *)

\* Holder objects the model follows.
MaxHolders == 2

\* The plugins that contribute a state, each one state under its own id:
\* the state of "p" lists two sync members, the state of "q" one.
StatePlugins == {"p", "q"}
StateIds == {"p.state", "q.state"}
StateOf(p) == IF p = "p" THEN "p.state" ELSE "q.state"
sync_members(state_id) == IF state_id = "p.state" THEN <<"a", "b">> ELSE <<"b">>

\* contributed_by(state_id).plugin_id
PluginOf(state_id) == IF state_id = "p.state" THEN "p" ELSE "q"

\* The values of the members of a plugin, as Python prints them, and a
\* plugin that has just been created.
MemberValues == {"1", "2"}
CreatedPlugin == [a |-> "1", b |-> "1"]

\* self._states.contributions: the states of the registered plugins.
StateContributions(ps) == {StateOf(p) : p \in ps}

\* state_class(): a Value member for each sync member, which holds None;
\* the class has no attribute for another name.
NewStateObject(state_id) ==
    [state |-> state_id, alive |-> "True", _allow_set |-> "False",
     a |-> IF "a" \in Range(sync_members(state_id)) THEN "None" ELSE "no member",
     b |-> IF "b" \in Range(sync_members(state_id)) THEN "None" ELSE "no member"]

\* The names getattr finds on a holder.
HolderAttributes(h) ==
    {"alive", "_allow_set", "__setattr__", "_setting_allowed", "_updater"}
        \cup Range(sync_members(h.state))

\* for m in state.sync_members: setattr(state_object, m, getattr(plugin, m)),
\* from the i-th member on.
RECURSIVE CopyLoop(_, _, _, _)
CopyLoop(h, plugin, ms, i) ==
    IF i > Len(ms)
    THEN h
    ELSE CopyLoop(__setattr__(h, ms[i], plugin[ms[i]]).holder, plugin, ms, i + 1)

\* _build_state(state_id) for a contributed state: the holder, filled
\* inside the context, and the members of the plugin that _updater is
\* bound to: plugin.observe(m, ...) follows the loop, where m is the last
\* member the loop went through.
_build_state(state_id, plugin) ==
    LET ms == sync_members(state_id)
        entered == __setattr__(NewStateObject(state_id), "_allow_set", "True").holder
        filled == CopyLoop(entered, plugin, ms, 1)
    IN  [holder |-> __setattr__(filled, "_allow_set", "False").holder,
         observed |-> {ms[Len(ms)]}]

\* An observer bound to a member of a plugin: holder number oid is told.
Binding(p, m, oid) == [plugin |-> p, member |-> m, holder |-> oid]

\* _notify_states_death for a change that removes the states of deads,
\* gone through one by one: for a dead state that lives, the handler asks
\* the holder for the attribute "setting_allowed" (line 161).
RECURSIVE _notify_states_death(_, _)
_notify_states_death(S, deads) ==
    IF deads = {}
    THEN S
    ELSE LET dead == CHOOSE d \in deads : TRUE
         IN  IF dead \notin DOMAIN S.living
             THEN _notify_states_death(S, deads \ {dead})
             ELSE IF "setting_allowed" \notin HolderAttributes(S.holders[S.living[dead]])
             THEN [S EXCEPT !.exc = "AttributeError"]
             ELSE _notify_states_death(
                      [S EXCEPT !.holders[S.living[dead]].alive = "False",
                                !.living = [d \in DOMAIN @ \ {dead} |-> @[d]]],
                      deads \ {dead})

\* The observers of the member m of plugin p run with its new value.
RECURSIVE NotifyEach(_, _, _)
NotifyEach(hs, bs, value) ==
    IF bs = {}
    THEN hs
    ELSE LET bd == CHOOSE x \in bs : TRUE
         IN  NotifyEach([hs EXCEPT ![bd.holder] =
                             _updater(@, bd.member, value).holder],
                        bs \ {bd}, value)

\* The variables the state plugin leaves alone.
besidesSharing ==
    <<collector, lifecycle, protocol, preferences, logging, packaging, states,
      threading, console>>

\* StatePlugin.start ran on a workbench without contributing plugin.
InitShare ==
    /\ InitBase
    /\ IdleProtocol /\ IdlePreferences /\ IdleLogging /\ IdlePackaging /\ IdleStates
    /\ IdleThreading /\ IdleConsole
    /\ plugged = {}
    /\ plugin_members = <<>>
    /\ _living_states = <<>>
    /\ holders = <<>>
    /\ bindings = {}
    /\ got = 0

\* What an operation on the state plugin records.
Shared(op, item, value, exc) ==
    /\ lastOp' = op
    /\ log' = <<CallEv(op, item, value)>>
    /\ raised' = exc
    /\ UNCHANGED besidesSharing

\* workbench.register(manifest) of a plugin that contributes a state: the
\* collector publishes the state; no state is dead.
Share_register ==
    \E p \in StatePlugins \ plugged :
        /\ plugged' = plugged \cup {p}
        /\ plugin_members' = Put(plugin_members, p, CreatedPlugin)
        /\ Shared("register", p, "", "none")
        /\ UNCHANGED <<_living_states, holders, bindings, got>>

\* workbench.unregister(plugin_id): the plugin goes with the observers of
\* its members, the collector publishes the mapping without its state and
\* _notify_states_death runs.
Share_unregister ==
    \E p \in plugged :
        LET S == _notify_states_death(
                     [living |-> _living_states, holders |-> holders,
                      exc |-> "none"],
                     StateContributions(plugged) \ StateContributions(plugged \ {p}))
        IN  /\ plugged' = plugged \ {p}
            /\ plugin_members' = [x \in DOMAIN plugin_members \ {p} |-> plugin_members[x]]
            /\ bindings' = {bd \in bindings : bd.plugin /= p}
            /\ _living_states' = S.living
            /\ holders' = S.holders
            /\ Shared("unregister", p, "", S.exc)
            /\ UNCHANGED got

\* StatePlugin.get_state(state_id): the living holder, or a holder built
\* now; a state that is not contributed gives KeyError.
Share_get_state ==
    \E state_id \in StateIds :
        IF state_id \in DOMAIN _living_states
        THEN /\ got' = _living_states[state_id]
             /\ Shared("get_state", state_id, "", "none")
             /\ UNCHANGED <<plugged, plugin_members, _living_states, holders, bindings>>
        ELSE IF state_id \notin StateContributions(plugged)
        THEN /\ got' = 0
             /\ Shared("get_state", state_id, "", "KeyError")
             /\ UNCHANGED <<plugged, plugin_members, _living_states, holders, bindings>>
        ELSE LET p == PluginOf(state_id)
                 r == _build_state(state_id, plugin_members[p])
                 oid == Len(holders) + 1
             IN  /\ Len(holders) < MaxHolders
                 /\ holders' = Append(holders, r.holder)
                 /\ _living_states' = Put(_living_states, state_id, oid)
                 /\ bindings' = bindings \cup {Binding(p, m, oid) : m \in r.observed}
                 /\ got' = oid
                 /\ Shared("get_state", state_id, "", "none")
                 /\ UNCHANGED <<plugged, plugin_members>>

\* plugin.m = value on a registered plugin: the observers of the member
\* run when the value changes.
Share_setattr ==
    \E p \in plugged, m \in {"a", "b"}, value \in MemberValues :
        /\ plugin_members' = [plugin_members EXCEPT ![p][m] = value]
        /\ holders' =
              IF plugin_members[p][m] = value
              THEN holders
              ELSE NotifyEach(holders,
                              {bd \in bindings : bd.plugin = p /\ bd.member = m},
                              value)
        /\ Shared("setattr", p, m, "none")
        /\ UNCHANGED <<plugged, _living_states, bindings, got>>

NextShare ==
    \/ Share_register
    \/ Share_unregister
    \/ Share_get_state
    \/ Share_setattr

SpecShare == InitShare /\ [][NextShare]_vars

----------------------------------------------------------------------------
(* Properties of the StatePlugin, checked under SpecShare. *)

\* The holder with this number was built for the plugin object that is
\* registered now.
BuiltFor(oid, p) == \E bd \in bindings : bd.holder = oid /\ bd.plugin = p

\* C33: a living holder mirrors every member of sync_members: each of its
\* attributes equals the current value of the same member of the plugin
\* it was built for.
C33_HolderMirrorsSyncMembers ==
    \A state_id \in DOMAIN _living_states :
        LET oid == _living_states[state_id]
            p == PluginOf(state_id)
        IN  BuiltFor(oid, p) =>
                \A i \in 1..Len(sync_members(state_id)) :
                    holders[oid][sync_members(state_id)[i]]
                        = plugin_members[p][sync_members(state_id)[i]]

\* C34: when the state of an unregistered plugin has a living holder, the
\* holder has alive set to False and leaves the living states, and nothing
\* is raised; get_state for a state that lives and is still contributed
\* returns the holder it returned before.
C34_DeadStateHolderNotified ==
    [][/\ lastOp' = "unregister" =>
            \A state_id \in DOMAIN _living_states :
                state_id \notin StateContributions(plugged') =>
                    /\ raised' = "none"
                    /\ holders'[_living_states[state_id]].alive = "False"
                    /\ state_id \notin DOMAIN _living_states'
       /\ lastOp' = "get_state" =>
            \A state_id \in DOMAIN _living_states :
                (log'[1].item = state_id
                 /\ state_id \in StateContributions(plugged)) =>
                    /\ got' = _living_states[state_id]
                    /\ _living_states' = _living_states]_vars

----------------------------------------------------------------------------
(* The QueueLoggerThread of glaze/plugins/log/tools.py: run takes records  *)
(* from a queue that other threads fill, one step of the thread at a time. *)

\* Records the producers put.
MaxRecords == 3

\* polls counts up to MaxPolls and stays there.
MaxPolls == 2

\* The k-th record that is put; records differ from each other and from None.
Record(k) == ToString(k)

\* The records among the items of s.
RecordsOf(s) == SelectSeq(s, LAMBDA x : x /= None)

\* Where the first None stands in s, past the end when s holds none.
FirstNone(s) ==
    IF None \in Range(s)
    THEN CHOOSE i \in 1..Len(s) : s[i] = None /\ \A j \in 1..(i - 1) : s[j] /= None
    ELSE Len(s) + 1

\* The records of s that come before the first None.
BeforeSentinel(s) == SubSeq(s, 1, FirstNone(s) - 1)

\* self.queue.get(timeout=0.5): the oldest item, or queue.Empty when the
\* wait ends without one.
queue_get(q) ==
    IF q = <<>>
    THEN [exc |-> "Empty", record |-> None, queue |-> q]
    ELSE [exc |-> "none", record |-> Head(q), queue |-> Tail(q)]

\* A call of queue.get that ends is counted once flag is False.
Polled(S) ==
    IF S.flag THEN S.polls ELSE IF S.polls < MaxPolls THEN S.polls + 1 ELSE S.polls

\* A thread that never reads flag: while True.
RunWhileTrue(S) ==
    IF S.pc = "while"
    THEN [S EXCEPT !.pc = "get"]
    ELSE LET r == queue_get(S.queue)
             T == [S EXCEPT !.queue = r.queue, !.polls = Polled(S)]
         IN  IF r.exc = "Empty"
             THEN [T EXCEPT !.pc = "while"]
             ELSE IF r.record = None
             THEN [T EXCEPT !.pc = "done"]
             ELSE [T EXCEPT !.handled = Append(@, r.record), !.pc = "while"]

\* One step of run from where the thread stands: the test of the while
\* statement, or the body of the loop, which gets an item and handles it.
run(S) ==
    IF S.pc = "while"
    THEN [S EXCEPT !.pc = IF S.flag THEN "get" ELSE "done"]
    ELSE LET r == queue_get(S.queue)
             T == [S EXCEPT !.queue = r.queue, !.polls = Polled(S)]
         IN  IF r.exc = "Empty"
             THEN [T EXCEPT !.pc = "while"]
             ELSE IF r.record = None
             THEN [T EXCEPT !.pc = "done"]
             ELSE [T EXCEPT !.handled = Append(@, r.record), !.pc = "while"]

\* The variables the thread and its queue leave alone.
besidesThreading ==
    <<collector, lifecycle, protocol, preferences, logging, packaging, states,
      sharing, console>>

\* QueueLoggerThread(queue) on an empty queue, started: run is about to
\* test flag for the first time.
InitQueue ==
    /\ InitBase
    /\ IdleProtocol /\ IdlePreferences /\ IdleLogging /\ IdlePackaging /\ IdleStates
    /\ IdleSharing /\ IdleConsole
    /\ queue = <<>>
    /\ flag = TRUE
    /\ pc = "while"
    /\ handled = <<>>
    /\ produced = <<>>
    /\ polls = 0

\* What a step of the thread or of a producer records.
Threaded(op, item) ==
    /\ lastOp' = op
    /\ log' = <<CallEv(op, item, "")>>
    /\ raised' = "none"
    /\ UNCHANGED besidesThreading

\* The thread goes one step on.
RunStep(op) ==
    LET S == run([pc |-> pc, flag |-> flag, queue |-> queue,
                  handled |-> handled, polls |-> polls])
    IN  /\ pc' = S.pc
        /\ queue' = S.queue
        /\ handled' = S.handled
        /\ polls' = S.polls
        /\ Threaded(op, S.pc)
        /\ UNCHANGED <<flag, produced>>

\* while self.flag:
Thread_while == pc = "while" /\ RunStep("while")

\* record = self.queue.get(timeout=0.5) with an item on the queue.
Thread_get == pc = "get" /\ queue /= <<>> /\ RunStep("get")

\* The wait of queue.get ends on an empty queue: except queue.Empty.
Thread_empty == pc = "get" /\ queue = <<>> /\ RunStep("Empty")

\* A producer puts its next record.
Queue_put ==
    /\ Len(RecordsOf(produced)) < MaxRecords
    /\ LET record == Record(Len(RecordsOf(produced)) + 1)
       IN  /\ queue' = Append(queue, record)
           /\ produced' = Append(produced, record)
           /\ Threaded("put", record)
    /\ UNCHANGED <<flag, pc, handled, polls>>

\* The listened process puts None, once.
Queue_put_None ==
    /\ None \notin Range(produced)
    /\ queue' = Append(queue, None)
    /\ produced' = Append(produced, None)
    /\ Threaded("put", None)
    /\ UNCHANGED <<flag, pc, handled, polls>>

\* thread.flag = False, from another thread.
Queue_stop ==
    /\ flag
    /\ flag' = FALSE
    /\ Threaded("stop", "")
    /\ UNCHANGED <<queue, pc, handled, produced, polls>>

\* The steps of the thread.
Thread == Thread_while \/ Thread_get \/ Thread_empty

NextQueue ==
    \/ Thread_while
    \/ Thread_get
    \/ Thread_empty
    \/ Queue_put
    \/ Queue_put_None
    \/ Queue_stop

SpecQueue == InitQueue /\ [][NextQueue]_vars

\* A started thread is scheduled again and again, and a wait of queue.get
\* ends after its timeout.
FairQueue == SpecQueue /\ WF_vars(Thread)

----------------------------------------------------------------------------
(* Properties of the QueueLoggerThread, checked under FairQueue. *)

\* s is the beginning of t.
IsPrefix(s, t) == Len(s) <= Len(t) /\ SubSeq(t, 1, Len(s)) = s

\* The thread took the None that was put.
SentinelTaken ==
    /\ None \in Range(produced)
    /\ Len(produced) - Len(queue) >= FirstNone(produced)

\* In every state: what was handled is the beginning of the records put
\* before None, in the order of the puts; a thread that took None has
\* ended and has handled all of them; a thread ends only on None or on
\* flag; at most one call of queue.get ends after flag was set to False.
QueueDelivery ==
    /\ IsPrefix(handled, BeforeSentinel(produced))
    /\ SentinelTaken => pc = "done" /\ handled = BeforeSentinel(produced)
    /\ pc = "done" => SentinelTaken \/ ~flag
    /\ polls <= 1

\* C35: the thread hands every record put before None to the logger, in
\* the order of the puts and once each, and ends when it takes None; when
\* flag is set to False it ends after at most one more call of queue.get;
\* whichever way the puts and the polls interleave.
C35_QueueDeliversThenStops ==
    /\ []QueueDelivery
    /\ (None \in Range(produced)) ~> (pc = "done")
    /\ (~flag) ~> (pc = "done")

C35_Witness ==
    /\ pc = "done"
    /\ flag
    /\ SentinelTaken
    /\ Len(handled) = 2
    /\ Len(produced) > Len(handled) + 1

----------------------------------------------------------------------------
(* The pending list of a DeclaratorCollector and the extensions of the     *)
(* point (SpecDecl).                                                       *)

\* C36: after a batch of a DeclaratorCollector every declarator on the
\* pending list belongs to an extension that is on the point, and the
\* batch called register on no declarator of an extension that is not on
\* the point.
C36_PendingBelongToPoint ==
    [][lastOp' \in BatchOps =>
          /\ \A i \in 1..Len(_delayed') : _delayed'[i].ext \in Range(extensions')
          /\ \A i \in 1..Len(log') :
                log'[i].ev \in {"register", "defer"}
                    => log'[i].ext \in Range(extensions')]_vars

----------------------------------------------------------------------------
(* contributed_by while the observers of contributions run (SpecExt). *)

\* The refresh of this step assigned a mapping that differs from the one
\* before: the observers of contributions are notified.
NotifiesObservers ==
    /\ raised' = "none"
    /\ \E i \in 1..Len(log') : log'[i] = AssignEv
    /\ contributions' /= contributions

\* contributed_by(id) called by an observer that the assignment of
\* contributions notifies: the mapping is the new one, and _extensions is
\* assigned on the line after, so the loop goes through the tracked
\* extensions of before the refresh.
AnswerOnNotify(id) ==
    LET contrib == contributions'[id]
    IN  IF \E e \in DOMAIN _extensions : contrib \in Range(_extensions[e])
        THEN CHOOSE e \in DOMAIN _extensions : contrib \in Range(_extensions[e])
        ELSE None

\* C37: when the observers of contributions are notified of a new mapping,
\* contributed_by(id) returns for every id of the new mapping the
\* extension that contributed the object published under that id.
C37_OwnerKnownOnNotify ==
    [][NotifiesObservers =>
          \A id \in DOMAIN contributions' :
              AnswerOnNotify(id) = contributions'[id].ext]_vars

----------------------------------------------------------------------------
(* An auto-save after save_preferences (SpecPrefs). *)

\* C38: when a member change triggers an auto-save right after
\* save_preferences wrote a file, the file keeps every table and every
\* line that the save wrote, but for the line of the changed member.
C38_AutoSaveKeepsSavedEntries ==
    [][(lastOp = "save_preferences" /\ AutoSaved) =>
          \A l \in files[_last_saved_pref_file].lines :
              \/ l.table = log'[1].item[1] /\ l.key = log'[1].item[2]
              \/ l \in files'[_last_saved_pref_file].lines]_vars

----------------------------------------------------------------------------
(* The handlers and filters that are attached and the registries of the    *)
(* log plugin (SpecLog).                                                   *)

\* C39: every handler that is attached to a logger is in the registry of
\* the handlers with that logger, and every filter of the registry of the
\* filters is attached to the handler that is registered under its
\* handler id, also after add_handler was called with an id in use.
C39_AttachedMatchRegistries ==
    /\ \A pair \in loggers :
          \E i \in 1..Len(_handlers) :
              _handlers[i].first = pair[2] /\ _handlers[i].second = pair[1]
    /\ \A i \in 1..Len(_filters) :
          In(_filters[i].second, _handlers)
              => <<At(_handlers, _filters[i].second).first, _filters[i].first>>
                     \in attached

----------------------------------------------------------------------------
(* The LogModel of glaze/plugins/log/tools.py: add_message and clean_text  *)
(* on a text that is a sequence of characters.                             *)

\* Lines the messages given to a model add up to.
MaxLines == 6

\* Largest buff_size a model is given.
MaxBuffSize == 2

NewLine == "\n"
Whitespace == {" ", NewLine}

\* The messages a handler gives to the model.
Messages ==
    {<<"a">>, <<"b">>, <<"a", NewLine, "b">>, <<" ", "a", NewLine>>, <<" ">>}

\* s.count("\n")
count(s) == Cardinality({i \in 1..Len(s) : s[i] = NewLine})

\* s.strip()
RECURSIVE strip(_)
strip(s) ==
    IF s = <<>> THEN s
    ELSE IF Head(s) \in Whitespace THEN strip(Tail(s))
    ELSE IF s[Len(s)] \in Whitespace THEN strip(SubSeq(s, 1, Len(s) - 1))
    ELSE s

\* Where the first "\n" of s stands, 0 when s holds none.
FirstNewLine(s) ==
    IF NewLine \in Range(s)
    THEN CHOOSE i \in 1..Len(s) : s[i] = NewLine /\ \A j \in 1..(i - 1) : s[j] /= NewLine
    ELSE 0

\* s.split("\n", maxsplit)[-1]: what is left of s after maxsplit splits,
\* or after the last "\n" when s holds fewer.
RECURSIVE split_last(_, _)
split_last(s, maxsplit) ==
    IF maxsplit = 0 \/ FirstNewLine(s) = 0
    THEN s
    ELSE split_last(SubSeq(s, FirstNewLine(s) + 1, Len(s)), maxsplit - 1)

\* The lines of s: what stands before each "\n", and what follows the last
\* one when s does not end with it.
RECURSIVE LinesOf(_)
LinesOf(s) ==
    IF s = <<>> THEN <<>>
    ELSE IF FirstNewLine(s) = 0 THEN <<s>>
    ELSE <<SubSeq(s, 1, FirstNewLine(s) - 1)>>
             \o LinesOf(SubSeq(s, FirstNewLine(s) + 1, Len(s)))

\* LogModel.add_message(message) on the model M.
add_message(M, message) ==
    LET cut == IF M._lines > M.buff_size
               THEN split_last(M.text, M._lines - M.buff_size)
               ELSE M.text
        stripped == Append(strip(message), NewLine)
    IN  [M EXCEPT !._lines = @ + count(stripped),
                  !.text = cut \o stripped]

\* LogModel.clean_text()
clean_text(M) == [M EXCEPT !.text = <<>>, !._lines = 0]

\* The variables the model leaves alone.
besidesConsole ==
    <<collector, lifecycle, protocol, preferences, logging, packaging, states,
      sharing, threading>>

\* LogModel(), or LogModel(buff_size=n).
InitModel ==
    /\ InitBase
    /\ IdleProtocol /\ IdlePreferences /\ IdleLogging /\ IdlePackaging /\ IdleStates
    /\ IdleSharing /\ IdleThreading
    /\ text = <<>>
    /\ _lines = 0
    /\ buff_size \in 1..MaxBuffSize
    /\ messages = <<>>

\* The model M becomes the state of the model after the call op.
Modelled(M, op, item) ==
    /\ text' = M.text
    /\ _lines' = M._lines
    /\ lastOp' = op
    /\ log' = <<CallEv(op, item, "")>>
    /\ raised' = "none"
    /\ UNCHANGED <<buff_size, besidesConsole>>

Model_add_message ==
    \E message \in Messages :
        /\ Len(messages) + count(Append(strip(message), NewLine)) <= MaxLines
        /\ messages' = messages \o LinesOf(Append(strip(message), NewLine))
        /\ Modelled(add_message([text |-> text, _lines |-> _lines,
                                 buff_size |-> buff_size], message),
                    "add_message", message)

\* clean_text(): the lines given before do not count any more.
Model_clean_text ==
    /\ messages' = <<>>
    /\ Modelled(clean_text([text |-> text, _lines |-> _lines,
                            buff_size |-> buff_size]),
                "clean_text", <<>>)

NextModel ==
    \/ Model_add_message
    \/ Model_clean_text

SpecModel == InitModel /\ [][NextModel]_vars

----------------------------------------------------------------------------
(* Properties of the LogModel, checked under SpecModel. *)

\* The smaller of two numbers.
Least(m, n) == IF m <= n THEN m ELSE n

\* C40: the counter of lines is the number of lines of text, the lines of
\* text are the lines given last, and text holds at least the newest
\* buff_size lines that were given, or all of them when fewer were given.
C40_TextHoldsNewestLines ==
    LET held_lines == LinesOf(text)
    IN  /\ _lines = Len(held_lines)
        /\ Len(held_lines) <= Len(messages)
        /\ held_lines = SubSeq(messages, Len(messages) - Len(held_lines) + 1,
                               Len(messages))
        /\ Len(held_lines) >= Least(buff_size, Len(messages))

=============================================================================
